---------------------------- MODULE Spec2Model ----------------------------
(***************************************************************************)
(* A model of the scrape-parse-normalize-merge pipeline of                 *)
(* netlify/functions/search.js: the price token extractor, the listing     *)
(* parser, the where-to-buy segment parser, the store price merger and the *)
(* listing request loop.                                                   *)
(*                                                                         *)
(* Text is modelled as a sequence of whitespace-separated tokens (the code *)
(* normalises every run of whitespace to one space before matching).  The  *)
(* regular expressions of the source are translated to searches over these *)
(* tokens.  Numbers are integers (pence, grams); null and NaN are two      *)
(* reserved values.                                                        *)
(***************************************************************************)
EXTENDS Integers, Sequences, FiniteSets, TLC

VARIABLES
    pc,             \* position of the operation being modelled
    text,           \* a where-to-buy segment / a link's flattened text
    storePrices,    \* parseProductPage: the entries pushed for the segment
    itemPrice,      \* extractItemPrice: the returned number
    args,           \* computePer100g: its arguments
    per100g,        \* computePer100g: the returned value
    detailResults,  \* handleCompare: the details that were fetched and parsed
    byStore,        \* handleCompare: the merge accumulator
    response,       \* the response of the handler
    page,           \* parseListingPage: its arguments
    products,       \* parseListingPage: the stubs returned
    request,        \* the request being served
    variant,        \* the place of the loop over the URL variants
    inflight,       \* the URL variants whose fetch has not settled
    fetched,        \* the URL variants fetched so far, in order
    replies,        \* what each settled fetch gave, in order
    selector,       \* handleCompare: the call of aiSelectBestCandidates
    selectedIndices, \* handleCompare: the indices the selector returned
    detailPromises, \* handleCompare: the promises handed to Promise.all
    cache,          \* app.js: the client-side cache { searches, products }
    heap,           \* app.js: the byStore objects built so far, by identity
    currentCompareByStore, \* app.js: the byStore object the table shows
    view,           \* app.js: the view showSearchView made visible
    compareSection, \* app.js: what renderCompareTable rendered last
    searches,       \* app.js: the calls of doSearch, in the order started
    enrichments,    \* app.js: the runs of enrichCompareWithLoyalty
    network,        \* app.js: the requests issued so far, per URL
    basketSearching, \* app.js: the flag of doBasketSearch
    basketSelections, \* app.js: the selection per ingredient
    basketData,     \* app.js: the store groups per ingredient
    baskets         \* app.js: the calls of doBasketSearch, in the order made

textVars == <<text, storePrices, itemPrice>>
unitVars == <<args, per100g>>
mergeVars == <<detailResults, byStore>>

listVars == <<page, products>>
reqVars == <<request, variant, inflight, fetched, replies>>
cmpVars == <<selector, selectedIndices, detailPromises>>
searchVars == <<heap, currentCompareByStore, view, compareSection, searches, enrichments>>
basketVars == <<basketSearching, basketSelections, basketData, baskets>>
frontVars == <<cache, network, searchVars, basketVars>>
serverVars == <<pc, text, storePrices, itemPrice, args, per100g, detailResults,
                byStore, response, page, products, request, variant, inflight,
                fetched, replies, selector, selectedIndices, detailPromises>>

vars == <<pc, text, storePrices, itemPrice, args, per100g, detailResults,
          byStore, response, page, products, request, variant, inflight,
          fetched, replies, selector, selectedIndices, detailPromises,
          cache, heap, currentCompareByStore, view, compareSection, searches,
          enrichments, network, basketSearching, basketSelections, basketData,
          baskets>>

---------------------------------------------------------------------------
(* Values *)

\* JavaScript null in a number|null field.
Null == -1
\* JavaScript NaN: parseFloat of an amount made of dots only ("£.").
NaN == 999

\* Largest amount that occurs in a text.
MaxAmount == 2
\* Longest text, in tokens.
MaxTokens == 4

\* What parseFloat returns on the capture of /£([\d.]+)/.
AmountValues == (0..MaxAmount) \cup {NaN}

\* !!x for a number|null value.
Truthy(x) == x # Null /\ x # NaN /\ x # 0

\* a < b on two numbers: false as soon as one is NaN.
Lt(a, b) == a # NaN /\ b # NaN /\ a < b

---------------------------------------------------------------------------
(* Tokens *)

Amt(v) == [k |-> "amt", v |-> v]
Tok(k) == [k |-> k, v |-> Null]

\* "per", "each": unit qualifiers.  "word": any other word, e.g. "100g".
\* "clubcard": the loyalty label of the segment's store.  "price": the word
\* PRICE.  "visit": the VISIT link text.  "unavailable": the marker.
WordKinds == {"per", "each", "word", "clubcard", "price", "visit", "unavailable"}

Tokens == {Amt(v) : v \in AmountValues} \cup {Tok(k) : k \in WordKinds}

IsAmt(t) == t.k = "amt"

Texts == UNION {[1..n -> Tokens] : n \in 0..MaxTokens}

SeqsUpTo(S, n) == UNION {[1..k -> S] : k \in 0..n}

RECURSIVE FirstIn(_, _)
\* The least element of a set of positions, 0 when it is empty: the place of
\* the leftmost match of a regular expression.
FirstIn(S, n) ==
    IF S = {} THEN 0
    ELSE IF n \in S THEN n ELSE FirstIn(S, n + 1)

First(S) == FirstIn(S, 1)

---------------------------------------------------------------------------
(* extractItemPrice and the per-unit patterns *)

\* Positions matched by /£[\d.]+\s+per\s+/gi: an amount, "per", and
\* whitespace after it.  trailing says whether whitespace follows the last
\* token (true inside a page text, false in a trimmed text).
PerUnitPositions(toks, trailing) ==
    {i \in 1..Len(toks) :
        /\ IsAmt(toks[i])
        /\ i + 1 <= Len(toks)
        /\ toks[i + 1].k = "per"
        /\ (i + 2 <= Len(toks) \/ trailing)}

\* Positions of /£([\d.]+)/g that are not per-unit positions.
ItemPricePositions(toks, trailing) ==
    {i \in 1..Len(toks) : IsAmt(toks[i]) /\ i \notin PerUnitPositions(toks, trailing)}

\* extractItemPrice(text), text being trimmed by its callers.
extractItemPrice(toks) ==
    LET S == ItemPricePositions(toks, FALSE)
    IN  IF S = {} THEN 0 ELSE toks[First(S)].v

\* /£([\d.]+)\s+per\s+([\d]*\s*[\w]+)/i: an amount, "per", then a word.
UnitMatch(toks) ==
    First({i \in 1..Len(toks) :
        /\ IsAmt(toks[i])
        /\ i + 2 <= Len(toks)
        /\ toks[i + 1].k = "per"
        /\ ~IsAmt(toks[i + 2])})

\* /£([\d.]+)\s+each/i
EachMatch(toks) ==
    First({i \in 1..Len(toks) :
        /\ IsAmt(toks[i])
        /\ i + 1 <= Len(toks)
        /\ toks[i + 1].k = "each"})

---------------------------------------------------------------------------
(* computePer100g *)

\* A weight token is a magnitude and a unit.  The magnitude is held in
\* thousandths of the unit, so that "0.005kg" is [mag |-> 5, unit |-> "kg"].
NoWeight == [mag |-> Null, unit |-> ""]

\* The value of a number|null field that holds a quotient.
NoRatio == [num |-> Null, den |-> Null]

UnitVocabulary == {"g", "kg", "ml", "l", "pt", "G", "KG", "ML", "L", "PT"}

\* String.prototype.toLowerCase on a unit.
toLowerCase(u) ==
    CASE u = "G" -> "g" [] u = "KG" -> "kg" [] u = "ML" -> "ml"
      [] u = "L" -> "l" [] u = "PT" -> "pt" [] OTHER -> u

\* The sanity window of the normalized amount, in grams or millilitres.
SanityMin == 5
SanityMax == 50000
\* kg -> g and l -> ml
PerKilo == 1000
\* 1 pint is about 568 ml
PerPint == 568

\* The factor of a unit: amount *= 1000, amount *= 568, or nothing.
UnitFactor(u) ==
    LET unit == toLowerCase(u)
    IN  IF unit = "kg" \/ unit = "l" THEN PerKilo
        ELSE IF unit = "pt" THEN PerPint
        ELSE 1

\* The normalized amount, in thousandths of a gram or millilitre.
NormalizedAmount(weight) == weight.mag * UnitFactor(weight.unit)

\* A sanity check that also rejects the two ends of the window.
computePer100g_OpenWindow(price, weight) ==
    IF ~Truthy(price) \/ weight = NoWeight THEN NoRatio
    ELSE LET amount == NormalizedAmount(weight)
         IN  IF amount <= SanityMin * 1000 \/ amount >= SanityMax * 1000 THEN NoRatio
             ELSE [num |-> price * 100 * 1000, den |-> amount]

\* computePer100g(price, weight): (price / amount) * 100 as the quotient
\* num / den, or null.
computePer100g(price, weight) ==
    IF ~Truthy(price) \/ weight = NoWeight THEN NoRatio
    ELSE LET amount == NormalizedAmount(weight)
         IN  IF amount < SanityMin * 1000 \/ amount > SanityMax * 1000 THEN NoRatio
             ELSE [num |-> price * 100 * 1000, den |-> amount]

---------------------------------------------------------------------------
(* parseProductPage: one where-to-buy segment *)

\* knownStores: the loyalty label of a store, "" when it has no loyaltyRx.
knownStores ==
    [name \in {"Tesco", "Sainsbury's", "Aldi", "Asda", "Morrisons", "Waitrose",
               "Ocado", "Co-op", "Iceland", "Amazon"} |->
        CASE name = "Tesco" -> "Clubcard"
          [] name = "Sainsbury's" -> "Nectar"
          [] OTHER -> ""]

\* segment.split(/VISIT/i)[0]
RECURSIVE CutAtVisit(_)
CutAtVisit(toks) ==
    IF toks = <<>> \/ Head(toks).k = "visit" THEN <<>>
    ELSE <<Head(toks)>> \o CutAtVisit(Tail(toks))

\* /unavailable/i.test(segment.slice(0, 60)): a modelled segment is shorter
\* than 60 characters.
IsUnavailable(toks) == \E i \in 1..Len(toks) : toks[i].k = "unavailable"

\* loyaltyRx, /CLUBCARD\s*(?:PRICE)?\s*£([\d.]+)/i: the position of the
\* amount of the leftmost match, 0 when there is none.
LoyaltyRxMatch(toks) ==
    LET starts == {i \in 1..Len(toks) :
                     /\ toks[i].k = "clubcard"
                     /\ \/ (i + 1 <= Len(toks) /\ IsAmt(toks[i + 1]))
                        \/ (i + 2 <= Len(toks) /\ toks[i + 1].k = "price"
                                               /\ IsAmt(toks[i + 2]))}
        s == First(starts)
    IN  IF s = 0 THEN 0
        ELSE IF IsAmt(toks[s + 1]) THEN s + 1 ELSE s + 2

\* loyaltyAltRx, /£([\d.]+)\s+Clubcard/i
LoyaltyAltRxMatch(toks) ==
    First({i \in 1..Len(toks) :
        /\ IsAmt(toks[i])
        /\ i + 1 <= Len(toks)
        /\ toks[i + 1].k = "clubcard"})

\* The loyalty price of a segment: <<loyaltyPrice, loyaltyScheme>>.
LoyaltyOf(store, clean, price) ==
    IF knownStores[store] = "" THEN <<Null, "">>
    ELSE LET m1 == LoyaltyRxMatch(clean)
             m2 == LoyaltyAltRxMatch(clean)
         IN  IF m1 # 0 THEN <<clean[m1].v, knownStores[store]>>
             ELSE IF m2 # 0 /\ Lt(clean[m2].v, price)
                  THEN <<clean[m2].v, knownStores[store]>>
                  ELSE <<Null, "">>

\* A bestPrice that takes any non-null loyalty price, cheaper or not.
BestPriceOf_AnyLoyalty(price, loyaltyPrice) ==
    IF loyaltyPrice # Null THEN loyaltyPrice ELSE price

\* entry.bestPrice
BestPriceOf(price, loyaltyPrice) ==
    IF Truthy(loyaltyPrice) /\ Lt(loyaltyPrice, price) THEN loyaltyPrice ELSE price

\* The body of the loop over the segments: the entries one segment pushes.
\* The promotion text is left out: nothing modelled here reads it.
ParseSegment(store, segment) ==
    IF IsUnavailable(segment) THEN <<>>
    ELSE
    LET clean == CutAtVisit(segment)
        um == UnitMatch(clean)
        em == EachMatch(clean)
        pricePerUnit == IF um # 0 THEN clean[um].v
                        ELSE IF em # 0 THEN clean[em].v ELSE Null
        unit == IF um # 0 THEN "per unit"
                ELSE IF em # 0 THEN "per item" ELSE ""
        allPrices == ItemPricePositions(clean, TRUE)
    IN  IF allPrices = {} THEN <<>>
        ELSE
        LET price == clean[First(allPrices)].v
            loy == LoyaltyOf(store, clean, price)
        IN  << [store |-> store,
                price |-> price,
                pricePerUnit |-> pricePerUnit,
                unit |-> unit,
                loyaltyPrice |-> loy[1],
                loyaltyScheme |-> loy[2],
                bestPrice |-> BestPriceOf(price, loy[1])] >>

\* The where-to-buy loop over the segments of the section, in page order.
RECURSIVE ParseSegments(_)
ParseSegments(segments) ==
    IF segments = <<>> THEN <<>>
    ELSE ParseSegment(Head(segments).store, Head(segments).toks)
         \o ParseSegments(Tail(segments))

---------------------------------------------------------------------------
(* parseProductPage: the supermarket alternatives *)

\* A product link of the detail page, as far as the parser reads it: whether
\* its href matches /\/product\/([^/]+)\/([A-Z0-9]{3,})/, the code captured,
\* the first name of storeNames its text includes ("" when none) and the
\* tokens of its text.

\* A callback that does not skip a link to the page itself.
AlternativeOf_KeepSelf(a, code) ==
    IF ~a.match THEN <<>>
    ELSE IF a.store = "" THEN <<>>
    ELSE IF ~Truthy(extractItemPrice(a.toks)) THEN <<>>
    ELSE <<[store |-> a.store, price |-> extractItemPrice(a.toks), code |-> a.code]>>

\* The callback of the each over the links: the alternative pushed for a
\* link, if any.  Of the entry, the fields the merger reads are kept.
AlternativeOf(a, code) ==
    IF ~a.match THEN <<>>
    ELSE IF a.code = code THEN <<>>
    ELSE IF a.store = "" THEN <<>>
    ELSE IF ~Truthy(extractItemPrice(a.toks)) THEN <<>>
    ELSE <<[store |-> a.store, price |-> extractItemPrice(a.toks), code |-> a.code]>>

RECURSIVE EachAlternative(_, _)
EachAlternative(links, code) ==
    IF links = <<>> THEN <<>>
    ELSE AlternativeOf(Head(links), code) \o EachAlternative(Tail(links), code)

\* The cap of alternatives.slice(0, 8).
AlternativesCap == 8

\* array.slice(0, n)
Slice(array, n) == SubSeq(array, 1, IF Len(array) < n THEN Len(array) ELSE n)

\* The ProductDetail returned for a page: its code, its weight, the entries of
\* its where-to-buy segments and its alternatives (name, imageUrl,
\* priceHistory and source are left out).
parseProductPage(html, code) ==
    [code |-> code,
     weight |-> html.weight,
     storePrices |-> ParseSegments(html.segments),
     alternatives |-> Slice(EachAlternative(html.links, code), AlternativesCap)]

---------------------------------------------------------------------------
(* parseListingPage *)

\* A link of the page, as far as the parser reads it: whether its href matches
\* /\/product\/([^/]+)\/([A-Z0-9]{3,})/, the slug and the code captured, and the
\* name the link resolves to ("" when none is found).
NoMatch == [match |-> FALSE, slug |-> "", code |-> "", name |-> ""]

\* A name is kept when it has at least 3 characters; the modelled names are
\* "" and names of 3 characters or more.
NameKept(name) == name # ""

\* The stub pushed for a link.  The fields computed from the link's own text
\* alone (store, price, weight, pricePerUnit, unit, imageUrl, productUrl) are
\* left out.
StubOf(link) == [name |-> link.name, code |-> link.code, slug |-> link.slug]

\* a >= b on two numbers, false as soon as one is NaN.
Ge(a, b) == a # NaN /\ b # NaN /\ a >= b

RECURSIVE EachLink_SeenAfterName(_, _, _, _)
\* A parser that marks a code as seen only once a stub was pushed for it.
EachLink_SeenAfterName(links, max, stubs, seen) ==
    IF links = <<>> \/ Ge(Len(stubs), max) THEN stubs
    ELSE LET a == Head(links)
         IN  IF ~a.match \/ a.code \in seen
             THEN EachLink_SeenAfterName(Tail(links), max, stubs, seen)
             ELSE IF ~NameKept(a.name)
             THEN EachLink_SeenAfterName(Tail(links), max, stubs, seen)
             ELSE EachLink_SeenAfterName(Tail(links), max, Append(stubs, StubOf(a)),
                                         seen \cup {a.code})

RECURSIVE EachLink(_, _, _, _)
\* $('a[href*="/product/"]').each(...): the callback over the links left,
\* with the products and the seen set so far.
EachLink(links, max, stubs, seen) ==
    IF links = <<>> \/ Ge(Len(stubs), max) THEN stubs
    ELSE LET a == Head(links)
         IN  IF ~a.match \/ a.code \in seen
             THEN EachLink(Tail(links), max, stubs, seen)
             ELSE IF ~NameKept(a.name)
             THEN EachLink(Tail(links), max, stubs, seen \cup {a.code})
             ELSE EachLink(Tail(links), max, Append(stubs, StubOf(a)),
                           seen \cup {a.code})

parseListingPage(links, max) == EachLink(links, max, <<>>, {})

---------------------------------------------------------------------------
(* json: the responses of the handler *)

\* The detail of a body that carries none.
NoDetail == [code |-> "", weight |-> NoWeight, storePrices |-> <<>>, alternatives |-> <<>>]

\* The bodies handed to json, by the fields their object literal has: kind
\* tells which literal it is, and a field the literal does not have is left
\* at its empty value.
NoBody ==
    [kind |-> "", error |-> "", products |-> <<>>, totalResults |-> Null,
     storePrices |-> <<>>, detail |-> NoDetail]
\* { error: ... }
ErrorBody(message) == [NoBody EXCEPT !.kind = "error", !.error = message]
\* { query, products, totalResults: products.length, source }
ListingBody(stubs) ==
    [NoBody EXCEPT !.kind = "listing", !.products = stubs, !.totalResults = Len(stubs)]
\* { query, storePrices }
CompareBody(rows) == [NoBody EXCEPT !.kind = "compare", !.storePrices = rows]
\* the ProductDetail returned by parseProductPage
DetailBody(detail) == [NoBody EXCEPT !.kind = "detail", !.detail = detail]

\* A json that tags every response as cacheable.
json_AlwaysCacheable(status, body) ==
    [status |-> status, cacheControl |-> "public, max-age=900",
     kind |-> body.kind, error |-> body.error, products |-> body.products,
     totalResults |-> body.totalResults, storePrices |-> body.storePrices,
     detail |-> body.detail]

\* json(status, body): the status code, the Cache-Control header and the body.
json(status, body) ==
    [status |-> status,
     cacheControl |-> IF status = 200 THEN "public, max-age=900" ELSE "no-cache",
     kind |-> body.kind, error |-> body.error, products |-> body.products,
     totalResults |-> body.totalResults, storePrices |-> body.storePrices,
     detail |-> body.detail]

\* No response was built yet.
NoResponse ==
    [status |-> 0, cacheControl |-> "", kind |-> "", error |-> "", products |-> <<>>,
     totalResults |-> Null, storePrices |-> <<>>, detail |-> NoDetail]

---------------------------------------------------------------------------
(* handleSearch and the listing step of handleCompare *)

\* The URL variants, in the order of the urls array.
urls == <<"/explore/{slug}s", "/explore/{slug}", "/explore/{slug}es", "/search/?q={query}">>

\* A fetch in flight: its URL and the delay of the timer that aborts it
\* (Null when it has none).
Fetch(url, timeoutMs) == [url |-> url, timeoutMs |-> timeoutMs]
\* The default timeoutMs of fetchPage.
DefaultTimeoutMs == 10000
\* The URL of handleProductDetail (the slug parameter is not modelled).
DetailUrl == "/product/_/{code}"

\* What a fetch gives: fetchPage throws (a network error, a timeout, a status
\* that is not ok), or returns an html text, 200 characters long or not, with
\* its product links.
FetchThrows == [ok |-> FALSE, long |-> FALSE, links |-> <<>>]

\* Math.max and Math.min: NaN as soon as one argument is NaN.
Max(a, b) == IF a = NaN \/ b = NaN THEN NaN ELSE IF a >= b THEN a ELSE b
Min(a, b) == IF a = NaN \/ b = NaN THEN NaN ELSE IF a <= b THEN a ELSE b

\* The query parameter q: whether it is given, the length of its text once
\* trimmed, and the white space trimmed away.
NoQuery == [given |-> FALSE, length |-> 0, pad |-> 0]
\* params.q is truthy: given and not the empty string.
QueryTruthy(q) == q.given /\ q.length + q.pad > 0
\* params.q.trim().length
TrimmedLength(q) == q.length

\* The product parameter: its text, and the class of each of its characters.
NoProduct == [text |-> "", classes |-> <<>>]
\* code.match(/^[A-Z0-9]{3,}$/)
CodeMatches(code) ==
    /\ Len(code.classes) >= 3
    /\ \A i \in 1..Len(code.classes) : code.classes[i] \in {"upper", "digit"}

\* parseInt(params.max_results || "60", 10) on the parameter texts modelled.
parseInt(maxResultsText) ==
    CASE maxResultsText = "" -> 60
      [] maxResultsText = "abc" -> NaN
      [] maxResultsText = "0" -> 0
      [] maxResultsText = "-5" -> 0 - 5
      [] maxResultsText = "2" -> 2
      [] maxResultsText = "600" -> 600

\* A handler that looks at product before compare.
ModeOf_ProductFirst(req) ==
    IF req.method # "GET" THEN "405"
    ELSE IF req.product.text # "" THEN "detail"
    ELSE IF req.compare # "" /\ QueryTruthy(req.q) THEN "compare"
    ELSE IF QueryTruthy(req.q) THEN "search"
    ELSE "400"

\* exports.handler: the mode a request is served in, or the status of the
\* response the handler builds itself.
ModeOf(req) ==
    IF req.method # "GET" THEN "405"
    ELSE IF req.compare # "" /\ QueryTruthy(req.q) THEN "compare"
    ELSE IF req.product.text # "" THEN "detail"
    ELSE IF QueryTruthy(req.q) THEN "search"
    ELSE "400"

\* The upper cap of the clamp.
UpperCap == 500
\* The max of the listing step of handleCompare.
CompareMax == 30

\* The max handed to parseListingPage: 30 in compare mode,
\* Math.max(1, Math.min(maxResults, 500)) in search mode.
ListingMax(req) ==
    IF ModeOf(req) = "compare" THEN CompareMax
    ELSE Max(1, Min(parseInt(req.max_results), UpperCap))

\* A check that lets a query of any length through.
InvalidQuery_EmptyOnly(req) == TrimmedLength(req.q) = 0

\* !query || query.length > 120
InvalidQuery(req) == TrimmedLength(req.q) = 0 \/ TrimmedLength(req.q) > 120

\* The body of the try block up to the parse: the stubs of a settled fetch,
\* none when it threw or when (!html || html.length < 200).
StubsOfReply(reply, max) ==
    IF ~reply.ok \/ ~reply.long THEN <<>>
    ELSE parseListingPage(reply.links, max)

\* A loop that goes on to the next variant after taking a result.
LeavesLoop_Never(stubs) == FALSE

\* A loop that is left after the first page, whatever it gave.
LeavesLoop_Always(stubs) == TRUE

\* products.length > 0: the return of handleSearch, the break of handleCompare.
LeavesLoop(stubs) == Len(stubs) > 0

---------------------------------------------------------------------------
(* aiSelectBestCandidates and the detail fetches of handleCompare *)

\* What the call of the selector gives.  "threw": the fetch rejects, or
\* res.json(), the trim of the text or JSON.parse throws.  "nomatch": the
\* reply holds no text that matches /\[[\d,\s]*\]/ (an error reply is one).
\* "array": the array JSON.parse gives for the match, a list of naturals.
NoOutcome == [kind |-> "", indices |-> <<>>]
Threw == [kind |-> "threw", indices |-> <<>>]
NoArray == [kind |-> "nomatch", indices |-> <<>>]
ArrayOf(indices) == [kind |-> "array", indices |-> indices]

\* The selector before any request: whether ANTHROPIC_API_KEY is set, how
\* far the call went, and what it gave.
NoSelector == [configured |-> FALSE, state |-> "idle", outcome |-> NoOutcome]

\* The URL of the selector, fetched without a signal: no timer aborts it.
SelectorFetch == Fetch("https://api.anthropic.com/v1/messages", Null)

\* The timeoutMs of the detail fetches of handleCompare.
DetailTimeoutMs == 8000

\* .filter(i => Number.isInteger(i) && i >= 0 && i < candidates.length)
UsableIndices(indices, candidates) ==
    SelectSeq(indices, LAMBDA i : i >= 0 /\ i < Len(candidates))

\* The cap of indices.slice(0, 4).
SelectorCap == 4

\* A selector that returns every usable index of the reply.
IndicesOf_Uncapped(outcome, candidates) ==
    IF outcome.kind \in {"threw", "nomatch"} THEN <<0>>
    ELSE IF UsableIndices(outcome.indices, candidates) = <<>> THEN <<0>>
    ELSE UsableIndices(outcome.indices, candidates)

\* The value aiSelectBestCandidates returns once its fetch settled.
IndicesOf(outcome, candidates) ==
    IF outcome.kind \in {"threw", "nomatch"} THEN <<0>>
    ELSE IF UsableIndices(outcome.indices, candidates) = <<>> THEN <<0>>
    ELSE Slice(UsableIndices(outcome.indices, candidates), SelectorCap)

\* !process.env.ANTHROPIC_API_KEY || candidates.length <= 1
SelectorSkipped(sel, candidates) == ~sel.configured \/ Len(candidates) <= 1

\* A promise of the array handed to Promise.all: pending, fulfilled with
\* null (the catch), or fulfilled with { product, detail, detailUrl }.
Pending(i) == [state |-> "pending", index |-> i, detail |-> NoDetail]
FulfilledNull(i) == [state |-> "null", index |-> i, detail |-> NoDetail]
Fulfilled(i, detail) == [state |-> "fulfilled", index |-> i, detail |-> detail]

\* A batch that resolves as soon as one of its promises is settled.
AllSettled_AnySettled(promises) ==
    \E k \in 1..Len(promises) : promises[k].state # "pending"

\* await Promise.all(...): the await resumes once every promise of the array
\* is fulfilled (none of them rejects, each catches its own throw).
AllSettled(promises) ==
    \A k \in 1..Len(promises) : promises[k].state # "pending"

\* A batch that gives nothing as soon as one of its fetches failed.
FilterBoolean_AllOrNothing(promises) ==
    IF \E k \in 1..Len(promises) : promises[k].state = "null" THEN <<>>
    ELSE [k \in 1..Len(promises) |-> promises[k].detail]

\* (await Promise.all(...)).filter(Boolean): the details of the promises that
\* were not fulfilled with null, in the order of the array.
FilterBoolean(promises) ==
    LET kept == SelectSeq(promises, LAMBDA q : q.state = "fulfilled")
    IN  [k \in 1..Len(kept) |-> kept[k].detail]

---------------------------------------------------------------------------
(* handleCompare: the store price merger *)

\* x || null on a number|null value.
OrNull(x) == IF Truthy(x) THEN x ELSE Null

\* byStore is a JavaScript object keyed by store name.  It is held as the
\* sequence of its values in insertion order, which is what Object.values
\* returns.  byStore[store]: the place of the row of a store, 0 when the key
\* is absent.
Lookup(rows, store) == First({i \in 1..Len(rows) : rows[i].store = store})

\* An assignment that never looks for the key: every write adds a row.
Assign_AlwaysAppend(rows, row) == Append(rows, row)

\* byStore[row.store] = row
Assign(rows, row) ==
    LET i == Lookup(rows, row.store)
    IN  IF i = 0 THEN Append(rows, row) ELSE [rows EXCEPT ![i] = row]

\* A comparison that lets an entry of equal effective price replace the row.
Cheaper_OrEqual(effectivePrice, existingEffective) ==
    ~Lt(existingEffective, effectivePrice)

\* effectivePrice < existingEffective
Cheaper(effectivePrice, existingEffective) == Lt(effectivePrice, existingEffective)

\* sp.loyaltyPrice && sp.loyaltyPrice < sp.price ? sp.loyaltyPrice : sp.price
EffectivePrice(sp) ==
    IF Truthy(sp.loyaltyPrice) /\ Lt(sp.loyaltyPrice, sp.price)
    THEN sp.loyaltyPrice ELSE sp.price

\* The row written for a store price entry of a detail.  The fields copied
\* through unread (pricePerUnit, unit, promotion, name, imageUrl, productUrl,
\* slug) are left out; from names the loop that wrote the row.
PrimaryRow(result, sp) ==
    [store |-> sp.store,
     price |-> sp.price,
     loyaltyPrice |-> OrNull(sp.loyaltyPrice),
     loyaltyScheme |-> sp.loyaltyScheme,
     per100g |-> computePer100g(EffectivePrice(sp), result.weight),
     weight |-> result.weight,
     code |-> result.code,
     from |-> "storePrices"]

\* The body of the inner loop of step 3.
MergeStorePrice(rows, result, sp) ==
    IF sp.store = "" \/ ~Truthy(sp.price) THEN rows
    ELSE LET i == Lookup(rows, sp.store)
         IN  IF i = 0 \/ Cheaper(EffectivePrice(sp), EffectivePrice(rows[i]))
             THEN Assign(rows, PrimaryRow(result, sp))
             ELSE rows

RECURSIVE MergeStorePrices(_, _, _)
MergeStorePrices(rows, result, sps) ==
    IF sps = <<>> THEN rows
    ELSE MergeStorePrices(MergeStorePrice(rows, result, Head(sps)), result, Tail(sps))

RECURSIVE MergePrimary(_, _)
\* Step 3: the loop over detailResults and their storePrices.
MergePrimary(rows, results) ==
    IF results = <<>> THEN rows
    ELSE MergePrimary(MergeStorePrices(rows, Head(results), Head(results).storePrices),
                      Tail(results))

AlternativeRow(alt) ==
    [store |-> alt.store,
     price |-> alt.price,
     loyaltyPrice |-> Null,
     loyaltyScheme |-> "",
     per100g |-> NoRatio,
     weight |-> NoWeight,
     code |-> alt.code,
     from |-> "alternatives"]

\* A backfill that does not look whether the store already has a row.
MergeAlternative_Overwrite(rows, alt) ==
    IF alt.store = "" THEN rows
    ELSE IF ~Truthy(alt.price) \/ alt.price <= 0 THEN rows
    ELSE Assign(rows, AlternativeRow(alt))

\* The body of the inner loop of step 4.
MergeAlternative(rows, alt) ==
    IF alt.store = "" \/ Lookup(rows, alt.store) # 0 THEN rows
    ELSE IF ~Truthy(alt.price) \/ alt.price <= 0 THEN rows
    ELSE Assign(rows, AlternativeRow(alt))

RECURSIVE MergeAlternativeList(_, _)
MergeAlternativeList(rows, alts) ==
    IF alts = <<>> THEN rows
    ELSE MergeAlternativeList(MergeAlternative(rows, Head(alts)), Tail(alts))

\* A backfill that reads the alternatives of the first detail only.
MergeAlternatives_FirstDetailOnly(rows, results) ==
    IF results = <<>> THEN rows
    ELSE MergeAlternativeList(rows, Head(results).alternatives)

RECURSIVE MergeAlternatives(_, _)
\* Step 4: the loop over detailResults and their alternatives.
MergeAlternatives(rows, results) ==
    IF results = <<>> THEN rows
    ELSE MergeAlternatives(MergeAlternativeList(rows, Head(results).alternatives),
                           Tail(results))

---------------------------------------------------------------------------
(* app.js: the client-side cache, the compare table, the loyalty enrichment *)

\* A field the object does not have: undefined.
Undefined == 0 - 2

\* The queries typed, and the codes of the products of a listing.
ClientQueries == {"brie", "cheese"}
ClientCodes == {"T1", "S1", "A1", "X1"}

\* getClarification: the queries that are keys of CLARIFICATIONS.
CLARIFICATIONS == {"cheese"}

\* Known stores with a loyalty scheme.
LOYALTY_STORES == {"Tesco", "Sainsbury's"}

\* A slot of cache.searches or cache.products nothing was assigned to, and
\* the objects assigned: the data of a listing reply, the detail of a
\* product reply.
NoData == [defined |-> FALSE, products |-> <<>>]
DataOf(prods) == [defined |-> TRUE, products |-> prods]
NoCachedDetail == [defined |-> FALSE, storePrices |-> <<>>]
CachedDetail(entries) == [defined |-> TRUE, storePrices |-> entries]

\* const cache = { searches: {}, products: {} }
EmptyCache ==
    [searches |-> [q \in ClientQueries |-> NoData],
     products |-> [c \in ClientCodes |-> NoCachedDetail]]

\* The requests the page issued, counted per URL.
NoRequests ==
    [searches |-> [q \in ClientQueries |-> 0], products |-> [c \in ClientCodes |-> 0]]

\* A product of a listing as the client reads it: store is
\* p.store || detectStore(p.name, p.slug), "" when neither gives a store;
\* named tells whether the name holds every word of the query.
ClientProduct(store, code, price) ==
    [store |-> store, code |-> code, price |-> price, named |-> TRUE,
     loyaltyPrice |-> Undefined]

\* byStore[store] of an object held as the sequence of its values.
HasRow(rows, store) == \E k \in 1..Len(rows) : rows[k].store = store
RowAt(rows, store) == rows[CHOOSE k \in 1..Len(rows) : rows[k].store = store]
\* byStore[row.store] = row
SetRow(rows, row) ==
    IF HasRow(rows, row.store)
    THEN [k \in 1..Len(rows) |-> IF rows[k].store = row.store THEN row ELSE rows[k]]
    ELSE Append(rows, row)

\* buildByStore: the loop over the products.
RECURSIVE buildByStoreFrom(_, _)
buildByStoreFrom(prods, acc) ==
    IF prods = <<>> THEN acc
    ELSE LET p == Head(prods)
             skipped == p.store = "" \/ p.price <= 0 \/ ~p.named
             cheaper == \/ ~HasRow(acc, p.store)
                        \/ p.price < RowAt(acc, p.store).price
         IN  buildByStoreFrom(Tail(prods),
                              IF ~skipped /\ cheaper THEN SetRow(acc, p) ELSE acc)

\* buildByStore(products, query)
buildByStore(prods) == buildByStoreFrom(prods, <<>>)

\* bestPrice(p), which effectiveUnitCost returns for a product without
\* pricePerUnit.
bestPrice(p) ==
    IF p.loyaltyPrice > 0 /\ p.loyaltyPrice < p.price THEN p.loyaltyPrice ELSE p.price

\* Object.entries(byStore).sort(...): a stable sort by effectiveUnitCost.
RECURSIVE InsertByCost(_, _)
InsertByCost(sorted, row) ==
    IF sorted = <<>> THEN <<row>>
    ELSE IF bestPrice(row) < bestPrice(Head(sorted)) THEN <<row>> \o sorted
    ELSE <<Head(sorted)>> \o InsertByCost(Tail(sorted), row)
RECURSIVE SortByCost(_)
SortByCost(rows) ==
    IF rows = <<>> THEN <<>>
    ELSE InsertByCost(SortByCost(SubSeq(rows, 1, Len(rows) - 1)), rows[Len(rows)])

\* renderCompareTable: compareSection.innerHTML, as the object rendered, its
\* rows in the order shown, and the function that called it.
Rendered(table, rows, caller) ==
    [table |-> table, rows |-> SortByCost(rows), caller |-> caller]
NothingRendered == [table |-> 0, rows |-> <<>>, caller |-> ""]

\* fetchLoyaltyInfo: null, or the enrichment fields of the store entry.
NoLoyalty == [found |-> FALSE, loyaltyPrice |-> Null]
LoyaltyInfo(detail, product) ==
    IF \E k \in 1..Len(detail.storePrices) : detail.storePrices[k].store = product.store
    THEN [found |-> TRUE,
          loyaltyPrice |-> OrNull(RowAt(detail.storePrices, product.store).loyaltyPrice)]
    ELSE NoLoyalty

\* { ...byStore[store], ...loyalty }
Enriched(rows, store, loyalty) ==
    SetRow(rows, [RowAt(rows, store) EXCEPT !.loyaltyPrice = loyalty.loyaltyPrice])

\* What a fetch of the client gave before it settled.
NoReply == [ok |-> FALSE, settled |-> FALSE, products |-> <<>>, storePrices |-> <<>>]

\* let currentCompareByStore = {}: the first object of the heap.
InitialByStore == [rows |-> <<>>, search |-> 0]

IdleSearch ==
    /\ heap = <<InitialByStore>> /\ currentCompareByStore = 1
    /\ view = "" /\ compareSection = NothingRendered
    /\ searches = <<>> /\ enrichments = <<>>
IdleBasket ==
    /\ basketSearching = FALSE /\ basketSelections = <<>> /\ basketData = <<>>
    /\ baskets = <<>>
IdleFront == cache = EmptyCache /\ network = NoRequests /\ IdleSearch /\ IdleBasket

---------------------------------------------------------------------------
(* Specification of the text operations *)

SegmentStores == {"Tesco", "Aldi"}

\* The variables an operation does not use.
IdleText == text = [store |-> "Tesco", toks |-> <<>>] /\ storePrices = <<>> /\ itemPrice = Null
IdleUnit == args = [price |-> Null, weight |-> NoWeight] /\ per100g = NoRatio
IdleMerge == detailResults = <<>> /\ byStore = <<>>
IdleList == page = [links |-> <<>>, max |-> 1] /\ products = <<>>
IdleRequest ==
    /\ request = [method |-> "GET", compare |-> "", q |-> NoQuery, product |-> NoProduct,
                  max_results |-> ""]
    /\ variant = 0 /\ inflight = {} /\ fetched = <<>> /\ replies = <<>>
IdleCompare == selector = NoSelector /\ selectedIndices = <<>> /\ detailPromises = <<>>

InitParse ==
    /\ pc = "text"
    /\ text \in [store : SegmentStores, toks : Texts]
    /\ storePrices = <<>>
    /\ itemPrice = Null
    /\ IdleUnit /\ IdleMerge /\ IdleList /\ IdleRequest /\ IdleCompare /\ response = NoResponse
    /\ IdleFront

\* parseProductPage on a page whose where-to-buy section holds the segment.
ParseProductPage ==
    /\ pc = "text"
    /\ storePrices' = ParseSegment(text.store, text.toks)
    /\ pc' = "parsed"
    /\ UNCHANGED <<text, itemPrice, unitVars, mergeVars, response, listVars, reqVars, cmpVars>>
    /\ UNCHANGED frontVars

\* extractItemPrice on the same text.
ExtractItemPrice ==
    /\ pc = "text"
    /\ itemPrice' = extractItemPrice(text.toks)
    /\ pc' = "extracted"
    /\ UNCHANGED <<text, storePrices, unitVars, mergeVars, response, listVars, reqVars, cmpVars>>
    /\ UNCHANGED frontVars

NextParse == ParseProductPage \/ ExtractItemPrice

SpecParse == InitParse /\ [][NextParse]_vars

---------------------------------------------------------------------------
(* Specification of computePer100g *)

\* Largest price, in pence.
MaxPrice == 3
\* How far around each end of the sanity window the magnitudes are taken.
MaxDelta == 1

\* Magnitudes (in thousandths of the unit) around the two ends of the window
\* for the conversion factor f, and a few ordinary ones.
Magnitudes(f) ==
    {m \in {(SanityMin * 1000) \div f + d : d \in -MaxDelta..MaxDelta + 1} \cup
            {(SanityMax * 1000) \div f + d : d \in -MaxDelta..MaxDelta + 1} : m >= 0}
    \cup {0, 1000, 400000}

\* The valid weight tokens: what /(\d+(?:\.\d+)?)\s*(g|kg|ml|l|pt)\b/i captures.
WeightTokens ==
    UNION {{[mag |-> m, unit |-> u] : m \in Magnitudes(UnitFactor(u))} : u \in UnitVocabulary}

InitUnit ==
    /\ pc = "args"
    /\ args \in [price : 1..MaxPrice, weight : WeightTokens]
    /\ per100g = NoRatio
    /\ IdleText /\ IdleMerge /\ IdleList /\ IdleRequest /\ IdleCompare /\ response = NoResponse
    /\ IdleFront

ComputePer100g ==
    /\ pc = "args"
    /\ per100g' = computePer100g(args.price, args.weight)
    /\ pc' = "computed"
    /\ UNCHANGED <<args, textVars, mergeVars, response, listVars, reqVars, cmpVars>>
    /\ UNCHANGED frontVars

NextUnit == ComputePer100g

SpecUnit == InitUnit /\ [][NextUnit]_vars

\* C8: for a positive price and a valid weight token, computePer100g is null
\* exactly when the normalized amount (magnitude x 1000 for kg and l, x 568
\* for pt, x 1 for g and ml) is outside [5, 50000], and otherwise is
\* price / normalizedAmount * 100.
C8_Per100g ==
    pc = "computed" =>
        LET u == args.weight.unit
            factor == CASE u \in {"kg", "KG", "l", "L"} -> 1000
                        [] u \in {"pt", "PT"} -> 568
                        [] u \in {"g", "G", "ml", "ML"} -> 1
            \* thousandths of a gram
            normalized == args.weight.mag * factor
            outside == normalized < 5 * 1000 \/ normalized > 50000 * 1000
        IN  /\ (per100g = NoRatio) <=> outside
            /\ ~outside =>
                  \* per100g = price / (normalized / 1000) * 100
                  /\ per100g.num = args.price * 100 * 1000
                  /\ per100g.den = normalized

\* C8 witness: a weight in pints within a gram of the upper end of the
\* window, which is priced.
C8_Witness ==
    /\ pc = "computed"
    /\ args.weight.unit \in {"pt", "PT"}
    /\ args.weight.mag * 568 > 49999 * 1000
    /\ per100g # NoRatio

---------------------------------------------------------------------------
(* Specification of the store price merger *)

\* The selected products whose detail pages were fetched, in the order of
\* the selector's reply.
SelectedCodes == <<"AAA111", "BBB222">>
\* The weight found on the page of each.
SelectedWeights == <<[mag |-> 400000, unit |-> "g"], NoWeight>>

\* Most store price entries over all the details of a request.
MaxStorePrices == 2
\* Most alternatives over all the details of a request.
MaxAlternatives == 1

\* The prices on the detail pages, 0 among them.
MergePrices == {0, 1, 2}
MergeLoyaltyPrices == {0, 1}

PrimaryStores == {"Tesco", "Aldi"}
AlternativeStores == {"Tesco", "M&S"}

\* The entries parseProductPage can produce for these stores (its fields
\* that the merger reads): any price it parsed, a loyalty price only at a
\* store with a loyalty pattern.  A NaN behaves as 0 does in every test the
\* merger makes, and is left out.
StorePriceEntries ==
    {e \in [store : PrimaryStores, price : MergePrices,
            loyaltyPrice : {Null} \cup MergeLoyaltyPrices,
            loyaltyScheme : {"", "Clubcard"}] :
        /\ knownStores[e.store] = "" => e.loyaltyPrice = Null
        /\ e.loyaltyScheme = IF e.loyaltyPrice = Null THEN "" ELSE knownStores[e.store]}

\* The alternatives parseProductPage can produce: a truthy price, and never
\* the code of the page itself.
AlternativeEntries ==
    [store : AlternativeStores, price : MergePrices \ {0}, code : {"ZZZ999"}]

\* The lists of the details: every way of giving the details at most
\* MaxStorePrices entries and MaxAlternatives alternatives in all.
DetailLists(S, n) ==
    {l \in [1..Len(SelectedCodes) -> SeqsUpTo(S, n)] :
        Len(l[1]) + Len(l[2]) <= n}

InitMerge ==
    /\ pc = "details"
    /\ \E sps \in DetailLists(StorePriceEntries, MaxStorePrices),
          alts \in DetailLists(AlternativeEntries, MaxAlternatives) :
          detailResults = [i \in 1..Len(SelectedCodes) |->
                              [code |-> SelectedCodes[i],
                               weight |-> SelectedWeights[i],
                               storePrices |-> sps[i],
                               alternatives |-> alts[i]]]
    /\ byStore = <<>>
    /\ response = NoResponse
    /\ IdleText /\ IdleUnit /\ IdleList /\ IdleRequest /\ IdleCompare
    /\ IdleFront

\* Step 3 of handleCompare.
MergeStep3 ==
    /\ pc = "details"
    /\ byStore' = MergePrimary(<<>>, detailResults)
    /\ pc' = "step4"
    /\ UNCHANGED <<detailResults, response, textVars, unitVars, listVars, reqVars, cmpVars>>
    /\ UNCHANGED frontVars

\* Step 4 of handleCompare.
MergeStep4 ==
    /\ pc = "step4"
    /\ byStore' = MergeAlternatives(byStore, detailResults)
    /\ pc' = "respond"
    /\ UNCHANGED <<detailResults, response, textVars, unitVars, listVars, reqVars, cmpVars>>
    /\ UNCHANGED frontVars

\* return json(200, { query, storePrices })
RespondCompare ==
    /\ pc = "respond"
    /\ response' = json(200, CompareBody(byStore))
    /\ pc' = "done"
    /\ UNCHANGED <<detailResults, byStore, textVars, unitVars, listVars, reqVars, cmpVars>>
    /\ UNCHANGED frontVars

\* A merge whose backfill runs before its primary pass.
RunMerge_AlternativesFirst(results) ==
    MergePrimary(MergeAlternatives(<<>>, results), results)

\* Lines 281-337 as one computation: a fresh accumulator, the primary pass,
\* the backfill, and Object.values in insertion order.
RunMerge(results) == MergeAlternatives(MergePrimary(<<>>, results), results)

\* The merge is run a second time on the same detailResults, as a second
\* request with the same details does: byStore is a fresh object again.
MergeAgain ==
    /\ pc = "done"
    /\ byStore' = RunMerge(detailResults)
    /\ pc' = "again"
    /\ UNCHANGED <<detailResults, response, textVars, unitVars, listVars, reqVars, cmpVars>>
    /\ UNCHANGED frontVars

NextMerge == MergeStep3 \/ MergeStep4 \/ RespondCompare \/ MergeAgain

SpecMerge == InitMerge /\ [][NextMerge]_vars

---------------------------------------------------------------------------
(* Specification of parseListingPage *)

\* Most links on a page.
MaxLinks == 3
\* Largest maximum result count.
MaxMax == 2

ProductCodes == {"AAA111", "BBB222"}

Links ==
    {NoMatch} \cup
    [match : {TRUE}, slug : {"brie", "somerset-brie"}, code : ProductCodes,
     name : {"", "Brie"}]

InitList ==
    /\ pc = "page"
    /\ page \in [links : SeqsUpTo(Links, MaxLinks), max : 1..MaxMax]
    /\ products = <<>>
    /\ response = NoResponse
    /\ IdleText /\ IdleUnit /\ IdleMerge /\ IdleRequest /\ IdleCompare
    /\ IdleFront

ParseListingPage ==
    /\ pc = "page"
    /\ products' = parseListingPage(page.links, page.max)
    /\ pc' = "listed"
    /\ UNCHANGED <<page, response, textVars, unitVars, mergeVars, reqVars, cmpVars>>
    /\ UNCHANGED frontVars

NextList == ParseListingPage

SpecList == InitList /\ [][NextList]_vars

\* C9: the stub list holds at most one stub per product code, and that stub
\* is built from the first link in document order carrying that code.
C9_FirstLinkPerCode ==
    pc = "listed" =>
        /\ \A i, j \in 1..Len(products) : products[i].code = products[j].code => i = j
        /\ \A i \in 1..Len(products) :
              LET carrying == {k \in 1..Len(page.links) :
                                  page.links[k].match /\ page.links[k].code = products[i].code}
                  first == CHOOSE k \in carrying : \A l \in carrying : k <= l
              IN  /\ carrying # {}
                  /\ products[i].slug = page.links[first].slug
                  /\ products[i].name = page.links[first].name

\* C9 witness: two links to the same code, of different slugs, and one stub
\* for it.
C9_Witness ==
    /\ pc = "listed"
    /\ \E k, l \in 1..Len(page.links) :
          /\ k < l
          /\ page.links[k].match /\ page.links[l].match
          /\ page.links[k].code = page.links[l].code
          /\ page.links[k].slug # page.links[l].slug
          /\ \E i \in 1..Len(products) : products[i].code = page.links[k].code

---------------------------------------------------------------------------
(* Specification of the alternatives of parseProductPage *)

\* Most product links on the detail page.
MaxAltLinks == 10

\* The code of the page parsed.
PageCode == "AAA111"

\* The product links of the page: a link to the page itself, a link to
\* another product with a store and a price, and a link to another product
\* whose only amount is a per-unit figure.
AltLinks ==
    {[match |-> TRUE, code |-> PageCode, store |-> "Tesco", toks |-> <<Amt(1)>>],
     [match |-> TRUE, code |-> "ZZZ999", store |-> "M&S", toks |-> <<Amt(1)>>],
     [match |-> TRUE, code |-> "YYY888", store |-> "Aldi",
      toks |-> <<Amt(1), Tok("per"), Tok("word")>>]}

InitAlternatives ==
    /\ pc = "page"
    /\ page \in [links : SeqsUpTo(AltLinks, MaxAltLinks), code : {PageCode}]
    /\ detailResults = <<>>
    /\ products = <<>> /\ byStore = <<>>
    /\ response = NoResponse
    /\ IdleText /\ IdleUnit /\ IdleRequest /\ IdleCompare
    /\ IdleFront

\* parseProductPage(html, code) on a page with these links.
ParseAlternatives ==
    /\ pc = "page"
    /\ detailResults' = <<parseProductPage([weight |-> NoWeight, segments |-> <<>>,
                                             links |-> page.links], page.code)>>
    /\ pc' = "parsed"
    /\ UNCHANGED <<page, products, byStore, response, textVars, unitVars, reqVars, cmpVars>>
    /\ UNCHANGED frontVars

NextAlternatives == ParseAlternatives

SpecAlternatives == InitAlternatives /\ [][NextAlternatives]_vars

\* The links of the page that are not to the page itself and show a price.
Eligible(links) ==
    SelectSeq(links, LAMBDA a : a.code # page.code /\ extractItemPrice(a.toks) # 0)

\* C19: the alternatives of the ProductDetail returned by parseProductPage
\* are at most 8, and none has the page's own code (they are the first 8
\* links to other products that show a store and a price, in page order).
C19_AlternativesCapped ==
    pc = "parsed" =>
        LET alternatives == detailResults[1].alternatives
        IN  /\ Len(alternatives) <= 8
            /\ \A k \in 1..Len(alternatives) : alternatives[k].code # page.code
            /\ Len(alternatives) = IF Len(Eligible(page.links)) < 8
                                   THEN Len(Eligible(page.links)) ELSE 8
            /\ \A k \in 1..Len(alternatives) :
                  alternatives[k].code = Eligible(page.links)[k].code

\* C19 witness: a page with a link to itself and nine links to priced
\* products of other codes gave eight alternatives.
C19_Witness ==
    /\ pc = "parsed"
    /\ \E k \in 1..Len(page.links) : page.links[k].code = page.code
    /\ Len(Eligible(page.links)) = 9
    /\ Len(detailResults[1].alternatives) = 8

---------------------------------------------------------------------------
(* Specification of the where-to-buy section of parseProductPage *)

\* Most chunks of the page text.
MaxChunks == 4

\* The page text as far as lines 409-413 read it: a sequence of chunks, each
\* one of the three markers or a run of other text, with one space after
\* each chunk.
ChunkKinds == {"Where To Buy", "Supermarket Alternatives", "Reviews", "other"}
\* The length of a chunk in characters, its space included.
ChunkLength(kind) ==
    CASE kind = "Where To Buy" -> 13
      [] kind = "Supermarket Alternatives" -> 25
      [] kind = "Reviews" -> 8
      [] kind = "other" -> 1000

RECURSIVE TextLength(_)
TextLength(chunks) ==
    IF chunks = <<>> THEN 0
    ELSE ChunkLength(Head(chunks)) + TextLength(Tail(chunks))

\* The offset at which chunk k starts.
OffsetOf(chunks, k) == TextLength(SubSeq(chunks, 1, k - 1))

\* fullText.indexOf(marker): the offset of the first occurrence, or -1.
indexOf(chunks, marker) ==
    IF \E k \in 1..Len(chunks) : chunks[k] = marker
    THEN OffsetOf(chunks, First({k \in 1..Len(chunks) : chunks[k] = marker}))
    ELSE 0 - 1

\* The budget of the section when no marker ends it.
SectionBudget == 2000

\* The text of no section.
NoSection == [from |-> 0, to |-> 0]

\* fullText.slice(from, to): the offsets of the characters kept.
slice(chunks, from, to) ==
    IF Min(to, TextLength(chunks)) <= from THEN NoSection
    ELSE [from |-> from, to |-> Min(to, TextLength(chunks))]

\* Lines 409-413: wtbText.
wtbText(chunks) ==
    LET wtbIdx == indexOf(chunks, "Where To Buy")
        altIdx == indexOf(chunks, "Supermarket Alternatives")
        revIdx == indexOf(chunks, "Reviews")
        sectionEnd == IF altIdx >= 0 THEN altIdx
                      ELSE IF revIdx >= 0 THEN revIdx
                      ELSE wtbIdx + SectionBudget
    IN  IF wtbIdx >= 0 THEN slice(chunks, wtbIdx, sectionEnd) ELSE NoSection

InitSection ==
    /\ pc = "page"
    /\ page \in [chunks : SeqsUpTo(ChunkKinds, MaxChunks)]
    /\ text = NoSection
    /\ storePrices = <<>> /\ itemPrice = Null
    /\ products = <<>>
    /\ response = NoResponse
    /\ IdleUnit /\ IdleMerge /\ IdleRequest /\ IdleCompare
    /\ IdleFront

\* parseProductPage locates the where-to-buy section of the page.
LocateSection ==
    /\ pc = "page"
    /\ text' = wtbText(page.chunks)
    /\ pc' = "located"
    /\ UNCHANGED <<page, products, storePrices, itemPrice, response, unitVars,
                   mergeVars, reqVars, cmpVars>>
    /\ UNCHANGED frontVars

NextSection == LocateSection

SpecSection == InitSection /\ [][NextSection]_vars

\* The offset of the first occurrence of a marker after the start marker,
\* or -1.
NextAfter(chunks, marker) ==
    LET start == First({k \in 1..Len(chunks) : chunks[k] = "Where To Buy"})
        later == {k \in (start + 1)..Len(chunks) : chunks[k] = marker}
    IN  IF later = {} THEN 0 - 1 ELSE OffsetOf(chunks, First(later))

\* C24: the where-to-buy section runs from the start marker to the next
\* "Supermarket Alternatives" after it, else to the next "Reviews" after it,
\* else for 2000 characters (or to the end of the text); a marker that
\* precedes the start marker neither truncates nor empties the section.
C24_SectionLocation ==
    (pc = "located" /\ indexOf(page.chunks, "Where To Buy") >= 0) =>
        LET start == indexOf(page.chunks, "Where To Buy")
            alt == NextAfter(page.chunks, "Supermarket Alternatives")
            rev == NextAfter(page.chunks, "Reviews")
            end == IF alt >= 0 THEN alt
                   ELSE IF rev >= 0 THEN rev
                   ELSE Min(start + 2000, TextLength(page.chunks))
        IN  text = [from |-> start, to |-> end]

---------------------------------------------------------------------------
(* Specification of the listing request *)

\* The pages the upstream site answers with.
RequestLinks ==
    {NoMatch} \cup
    [match : {TRUE}, slug : {"brie"}, code : {"AAA111"}, name : {"", "Brie"}]

Replies ==
    {FetchThrows} \cup [ok : {TRUE}, long : BOOLEAN, links : SeqsUpTo(RequestLinks, 1)]

\* The requests: a q that is absent, the empty string, white space only,
\* 120 characters long inside white space, or 121 characters long; a product that is absent,
\* a code, too short, or in lower case; the texts of max_results.
Queries ==
    {NoQuery, [given |-> TRUE, length |-> 0, pad |-> 0],
     [given |-> TRUE, length |-> 0, pad |-> 3],
     [given |-> TRUE, length |-> 120, pad |-> 2],
     [given |-> TRUE, length |-> 121, pad |-> 0]}
ProductParams ==
    {NoProduct,
     [text |-> "AAA111", classes |-> <<"upper", "upper", "upper", "digit", "digit", "digit">>],
     [text |-> "A1", classes |-> <<"upper", "digit">>],
     [text |-> "aaa111", classes |-> <<"lower", "lower", "lower", "digit", "digit", "digit">>]}
MaxResultsTexts == {"", "abc", "0", "-5", "2", "600"}
Requests ==
    [method : {"GET", "POST"}, compare : {"", "1"}, q : Queries,
     product : ProductParams, max_results : MaxResultsTexts]

\* The detail pages the upstream site answers with: one without any
\* where-to-buy segment or product link, and one with a segment, a link to
\* the page itself and a link to an alternative.
EmptyPage == [weight |-> NoWeight, segments |-> <<>>, links |-> <<>>]
BriePage ==
    [weight |-> [mag |-> 200000, unit |-> "g"],
     segments |-> <<[store |-> "Tesco", toks |-> <<Amt(2), Amt(1), Tok("clubcard")>>]>>,
     links |-> <<[match |-> TRUE, code |-> "AAA111", store |-> "Aldi", toks |-> <<Amt(1)>>],
                 [match |-> TRUE, code |-> "ZZZ999", store |-> "M&S", toks |-> <<Amt(2)>>]>>]
\* What the fetch of a detail page gives: fetchPage throws, or returns a text
\* that is empty or not.
DetailThrows == [ok |-> FALSE, empty |-> TRUE, html |-> EmptyPage]
DetailReplies ==
    {DetailThrows} \cup {[ok |-> TRUE, empty |-> TRUE, html |-> EmptyPage]}
    \cup [ok : {TRUE}, empty : {FALSE}, html : {EmptyPage, BriePage}]

\* A handler that answers a failed fetch with an empty detail.
DetailResponse_EmptyOnThrow(reply, code) ==
    IF ~reply.ok THEN json(200, DetailBody(parseProductPage(EmptyPage, code)))
    ELSE IF reply.empty THEN json(404, ErrorBody("Product not found"))
    ELSE json(200, DetailBody(parseProductPage(reply.html, code)))

\* Lines 360-369: the response of handleProductDetail once its fetch settled.
DetailResponse(reply, code) ==
    IF ~reply.ok THEN json(500, ErrorBody("err.message"))
    ELSE IF reply.empty THEN json(404, ErrorBody("Product not found"))
    ELSE json(200, DetailBody(parseProductPage(reply.html, code)))

InitRequest ==
    /\ pc = "request"
    /\ request \in Requests
    /\ variant = 0 /\ inflight = {} /\ fetched = <<>> /\ replies = <<>>
    /\ products = <<>>
    /\ page = [links |-> <<>>, max |-> 1]
    /\ response = NoResponse
    /\ IdleText /\ IdleUnit /\ IdleMerge /\ IdleCompare
    /\ IdleFront

\* exports.handler up to the first await of the mode it selects: the
\* response of an input that is refused, the first fetch of a detail
\* request, the head of the loop of a listing or compare request.
HandleRequest ==
    /\ pc = "request"
    /\ CASE ModeOf(request) = "405" ->
              /\ response' = json(405, ErrorBody("Method not allowed"))
              /\ pc' = "done"
              /\ UNCHANGED <<variant, inflight, fetched>>
         [] ModeOf(request) = "400" ->
              /\ response' = json(400, ErrorBody("Provide ?q=search+term or ?product=CODE&slug=product-slug"))
              /\ pc' = "done"
              /\ UNCHANGED <<variant, inflight, fetched>>
         [] ModeOf(request) = "detail" ->
              IF ~CodeMatches(request.product)
              THEN /\ response' = json(400, ErrorBody("Invalid product code"))
                   /\ pc' = "done"
                   /\ UNCHANGED <<variant, inflight, fetched>>
              ELSE /\ fetched' = <<DetailUrl>>
                   /\ inflight' = {Fetch(DetailUrl, DefaultTimeoutMs)}
                   /\ pc' = "product"
                   /\ UNCHANGED <<variant, response>>
         [] ModeOf(request) \in {"search", "compare"} ->
              IF InvalidQuery(request)
              THEN /\ response' = json(400, ErrorBody("Invalid query"))
                   /\ pc' = "done"
                   /\ UNCHANGED <<variant, inflight, fetched>>
              ELSE /\ variant' = 1
                   /\ pc' = "listing"
                   /\ UNCHANGED <<response, inflight, fetched>>
    /\ UNCHANGED <<request, replies, listVars, textVars, unitVars, mergeVars, cmpVars>>
    /\ UNCHANGED frontVars

\* The head of the loop: await fetchPage(url) for the next variant, or the
\* code after the loop when none is left.
NextVariant ==
    /\ pc = "listing"
    /\ IF variant <= Len(urls)
       THEN /\ fetched' = Append(fetched, urls[variant])
            /\ inflight' = inflight \cup {Fetch(urls[variant], DefaultTimeoutMs)}
            /\ pc' = "awaiting"
            /\ UNCHANGED response
       ELSE /\ IF ModeOf(request) = "search"
               THEN /\ response' = json(200, ListingBody(<<>>))
                    /\ pc' = "done"
               ELSE IF Len(products) = 0
               THEN /\ response' = json(200, CompareBody(<<>>))
                    /\ pc' = "done"
               ELSE /\ pc' = "select"
                    /\ UNCHANGED response
            /\ UNCHANGED <<fetched, inflight>>
    /\ UNCHANGED <<request, variant, replies, listVars, textVars, unitVars,
                   mergeVars, cmpVars>>
    /\ UNCHANGED frontVars

\* The fetch in flight settles, and the rest of the loop body runs.
FetchSettles ==
    /\ pc = "awaiting"
    /\ \E reply \in Replies :
          LET stubs == StubsOfReply(reply, ListingMax(request))
          IN  /\ replies' = Append(replies, reply)
              /\ inflight' = {}
              /\ products' = IF Len(stubs) > 0 THEN stubs ELSE products
              /\ IF LeavesLoop(stubs) /\ ModeOf(request) = "search"
                 THEN response' = json(200, ListingBody(stubs))
                 ELSE UNCHANGED response
              /\ IF LeavesLoop(stubs)
                 THEN /\ pc' = IF ModeOf(request) = "search" THEN "done" ELSE "select"
                      /\ UNCHANGED variant
                 ELSE /\ pc' = "listing"
                      /\ variant' = variant + 1
    /\ UNCHANGED <<request, fetched, page, textVars, unitVars, mergeVars, cmpVars>>
    /\ UNCHANGED frontVars

\* handleProductDetail after its await: the fetch of the product page
\* settles, and the response is built.
ProductSettles ==
    /\ pc = "product"
    /\ \E reply \in DetailReplies :
          /\ replies' = Append(replies, reply)
          /\ response' = DetailResponse(reply, request.product.text)
    /\ inflight' = {}
    /\ pc' = "done"
    /\ UNCHANGED <<request, variant, fetched, listVars, textVars, unitVars,
                   mergeVars, cmpVars>>
    /\ UNCHANGED frontVars

NextRequest == HandleRequest \/ NextVariant \/ FetchSettles \/ ProductSettles

SpecRequest == InitRequest /\ [][NextRequest]_vars

\* The result of the listing step: the products of the response in search
\* mode, the candidates in compare mode.
ListingResult == IF ModeOf(request) = "search" THEN response.products ELSE products

\* C10: in a listing or compare request the URL variants are fetched one at
\* a time in their fixed order; the result is taken from the first variant that yields at least one stub, and
\* no variant after it is ever fetched.
C10_SequentialShortCircuit ==
    ModeOf(request) \in {"search", "compare"} =>
        /\ Cardinality(inflight) <= 1
        /\ Len(fetched) <= Len(urls)
        /\ \A i \in 1..Len(fetched) : fetched[i] = urls[i]
        /\ Len(replies) + Cardinality(inflight) = Len(fetched)
        /\ \A i \in 1..Len(replies) :
              LET stubs == IF replies[i].ok /\ replies[i].long
                           THEN parseListingPage(replies[i].links, ListingMax(request))
                           ELSE <<>>
              IN  stubs # <<>> =>
                      /\ Len(fetched) = i
                      /\ pc \in {"done", "select"}
                      /\ ListingResult = stubs
        /\ (pc \in {"done", "select"} /\ ListingResult # <<>>) =>
              /\ replies # <<>>
              /\ replies[Len(replies)].ok /\ replies[Len(replies)].long

\* C10 witness: the first variant threw, the second gave a page with a
\* product, and the request ended on it with two fetches made.
C10_Witness ==
    /\ pc \in {"done", "select"}
    /\ Len(replies) = 2
    /\ ~replies[1].ok
    /\ ListingResult # <<>>
    /\ fetched = <<urls[1], urls[2]>>

\* The stubs a settled fetch of the listing loop yielded.
StubsOfSettled(i) == StubsOfReply(replies[i], ListingMax(request))

RowsOf(rows) == {rows[i] : i \in 1..Len(rows)}

\* A listing request with a valid query.
ValidListingRequest == ModeOf(request) = "search" /\ ~InvalidQuery(request)

\* C11: in a listing request with a valid query, a variant whose fetch
\* throws, times out, returns a short page or yields zero stubs never ends the
\* request: as long as variants are left the next one is attempted, and when
\* every variant yielded zero stubs the response is HTTP 200 with products = []
\* and totalResults = 0; no error response is ever built.
C11_FailedVariantIsSkipped ==
    ValidListingRequest =>
        /\ response.status \in {0, 200}
        /\ response.kind \in {"", "listing"}
        /\ (pc # "request" /\ \A i \in 1..Len(replies) : StubsOfSettled(i) = <<>>) =>
              IF Len(replies) < Len(urls)
              THEN /\ pc \in {"listing", "awaiting"}
                   /\ response = NoResponse
                   /\ \A i \in 1..Len(replies) : fetched[i] = urls[i]
                   /\ pc = "awaiting" => fetched[Len(replies) + 1] = urls[Len(replies) + 1]
              ELSE /\ pc \in {"listing", "done"}
                   /\ pc = "done" =>
                         /\ response.status = 200
                         /\ response.products = <<>>
                         /\ response.totalResults = 0

\* C11 witness: a listing request whose four variants threw, gave a short
\* page, and gave pages without a product, answered with 200 and no product.
C11_Witness ==
    /\ ValidListingRequest
    /\ pc = "done"
    /\ Len(replies) = Len(urls)
    /\ ~replies[1].ok
    /\ replies[2].ok /\ ~replies[2].long
    /\ replies[3].ok /\ replies[3].long /\ replies[3].links = <<>>
    /\ replies[4].ok /\ replies[4].long /\ replies[4].links # <<>>
    /\ response.status = 200 /\ response.products = <<>> /\ response.totalResults = 0

\* A detail request with a valid product code.
ValidDetailRequest == ModeOf(request) = "detail" /\ CodeMatches(request.product)

InvalidInput ==
    \/ ModeOf(request) = "400"
    \/ /\ ModeOf(request) \in {"search", "compare"}
       /\ request.q.length = 0 \/ request.q.length > 120
    \/ /\ ModeOf(request) = "detail"
       /\ ~CodeMatches(request.product)

\* C16: a request whose query is missing, empty after trimming or longer
\* than 120 characters, or whose product code does not match
\* ^[A-Z0-9]{3,}$, receives a 4xx {error} response and causes no upstream
\* fetch at all.
C16_InvalidInputIsRefused ==
    InvalidInput =>
        /\ fetched = <<>> /\ inflight = {} /\ replies = <<>>
        /\ pc \in {"request", "done"}
        /\ pc = "done" =>
              /\ response.status \in 400..499
              /\ response.kind = "error"

\* The parameters a request carries: a parameter given as the empty string
\* carries nothing.
HasCompare == request.compare # ""
HasQuery == request.q.given /\ request.q.length + request.q.pad > 0
HasProduct == request.product.text # ""

\* What the handler did, seen from outside: the status and body of its
\* response and the URLs it fetched.
Refused405 ==
    /\ pc = "done" /\ fetched = <<>>
    /\ response.status = 405 /\ response.error = "Method not allowed"
Refused400 ==
    /\ pc = "done" /\ fetched = <<>>
    /\ response.status = 400
    /\ response.error = "Provide ?q=search+term or ?product=CODE&slug=product-slug"
ServedAsDetail ==
    /\ \A i \in 1..Len(fetched) : fetched[i] = DetailUrl
    /\ \/ pc = "product" /\ fetched = <<DetailUrl>>
       \/ pc = "done" /\ response.kind = "detail" /\ fetched = <<DetailUrl>>
       \/ pc = "done" /\ response.kind = "error" /\ fetched = <<DetailUrl>>
             /\ response.status \in {404, 500}
       \/ pc = "done" /\ response.error = "Invalid product code" /\ fetched = <<>>
ServedAsListing ==
    /\ \A i \in 1..Len(fetched) : fetched[i] # DetailUrl
    /\ \/ pc \in {"listing", "awaiting"}
       \/ pc = "done" /\ response.kind = "listing"
       \/ pc = "done" /\ response.error = "Invalid query" /\ fetched = <<>>
ServedAsCompare ==
    /\ \A i \in 1..Len(fetched) : fetched[i] # DetailUrl
    /\ \/ pc \in {"listing", "awaiting", "select"}
       \/ pc = "done" /\ response.kind = "compare"
       \/ pc = "done" /\ response.error = "Invalid query" /\ fetched = <<>>

\* C25: the handler selects its mode by a fixed precedence over the
\* parameters present: a method other than GET gives 405; otherwise compare
\* together with q is served as a comparison, even when product is given;
\* otherwise product is served as a detail, even when q is given; otherwise
\* q is served as a listing; otherwise the response is 400. A request is
\* served in one mode only.
C25_ModePrecedence ==
    pc # "request" =>
        IF request.method # "GET" THEN Refused405
        ELSE IF HasCompare /\ HasQuery
             THEN ServedAsCompare /\ ~ServedAsDetail /\ ~Refused400 /\ ~Refused405
                  /\ (pc = "done" /\ response.status = 200 => ~ServedAsListing)
        ELSE IF HasProduct
             THEN ServedAsDetail /\ ~ServedAsCompare /\ ~ServedAsListing
                  /\ ~Refused400 /\ ~Refused405
        ELSE IF HasQuery
             THEN ServedAsListing /\ ~ServedAsDetail /\ ~Refused400 /\ ~Refused405
                  /\ pc # "select"
                  /\ (pc = "done" /\ response.status = 200 => ~ServedAsCompare)
        ELSE Refused400

\* C25 witness: a request with compare, q and product all given was served
\* as a comparison.
C25_Witness ==
    /\ request.method = "GET"
    /\ HasCompare /\ HasQuery /\ HasProduct
    /\ pc = "select"

\* C25 witness: a request with q and product and without compare was served
\* as a detail.
C25_WitnessDetail ==
    /\ request.method = "GET"
    /\ ~HasCompare /\ HasQuery /\ HasProduct
    /\ pc = "done" /\ response.kind = "detail" /\ response.status = 200

\* C16 witness: a listing request with a query of 121 characters was
\* answered with 400 and nothing was fetched.
C16_Witness ==
    /\ ModeOf(request) = "search"
    /\ request.q.length = 121
    /\ pc = "done"
    /\ response.status = 400 /\ response.error = "Invalid query"
    /\ fetched = <<>>

\* C17: every response the handler builds carries Cache-Control: public,
\* max-age=900 if and only if it is a success response; every error response
\* ({error: ...}, status 4xx or 5xx) carries no-cache.
C17_CacheableIffSuccess ==
    response # NoResponse =>
        /\ response.cacheControl = "public, max-age=900" <=> response.kind # "error"
        /\ response.kind = "error" =>
              /\ response.status \in 400..599
              /\ response.cacheControl = "no-cache"
        /\ response.kind # "error" => response.status = 200

\* C17 witness: the fetch of a detail request failed, and the 500 response
\* is tagged no-cache.
C17_Witness ==
    /\ pc = "done"
    /\ response.status = 500
    /\ response.kind = "error"
    /\ response.cacheControl = "no-cache"

\* C18: in listing mode, for every value of max_results (absent,
\* non-numeric, zero, negative, huge) the clamped maximum lies between 1 and
\* the upper cap of 500, and the stubs returned never exceed it.
C18_ListingIsCapped ==
    (ValidListingRequest /\ pc # "request") =>
        /\ ListingMax(request) \in 1..UpperCap
        /\ Len(response.products) <= ListingMax(request)

---------------------------------------------------------------------------
(* Specification of the compare request after its listing step *)

\* Most candidates the listing step gave.
MaxCandidates == 3
\* Most indices in the array of the selector's reply.
MaxReplyIndices == 3

\* The candidates, in the order of the listing page.
CandidateCodes == <<"AAA111", "BBB222", "CCC333", "DDD444">>
Candidate(i) == [name |-> "Brie", code |-> CandidateCodes[i], slug |-> "brie"]
CandidateLists == {[i \in 1..n |-> Candidate(i)] : n \in 0..MaxCandidates}

\* The detail page of each candidate.
PageOf(code) ==
    CASE code = "AAA111" ->
           [weight |-> [mag |-> 400000, unit |-> "g"],
            segments |-> <<[store |-> "Tesco", toks |-> <<Amt(2)>>]>>,
            links |-> <<[match |-> TRUE, code |-> "ZZZ999", store |-> "M&S",
                         toks |-> <<Amt(1)>>]>>]
      [] code = "BBB222" ->
           [weight |-> NoWeight,
            segments |-> <<[store |-> "Tesco", toks |-> <<Amt(1)>>],
                           [store |-> "Aldi", toks |-> <<Amt(2)>>]>>,
            links |-> <<>>]
      [] OTHER ->
           [weight |-> NoWeight,
            segments |-> <<>>,
            links |-> <<[match |-> TRUE, code |-> "YYY888", store |-> "Aldi",
                         toks |-> <<Amt(1)>>]>>]

\* What the selector's call can give, and what the fetch of a detail page
\* can: the timer aborts it, it fails otherwise (network, status), or it
\* returns the page.
SelectorOutcomes ==
    {Threw, NoArray} \cup {ArrayOf(l) : l \in SeqsUpTo(0..MaxCandidates, MaxReplyIndices)}
DetailOutcomes == {"timeout", "error", "page"}

\* The product of a promise, and the URL of its detail page.
ProductOf(q) == products[q.index + 1]
DetailUrlOf(product) == <<"/product/", product.slug, "/", product.code>>

InitCompare ==
    /\ pc = "candidates"
    /\ products \in CandidateLists
    /\ selector \in [configured : BOOLEAN, state : {"idle"}, outcome : {NoOutcome}]
    /\ selectedIndices = <<>>
    /\ detailPromises = <<>>
    /\ page = [links |-> <<>>, max |-> 1]
    /\ response = NoResponse
    /\ IdleText /\ IdleUnit /\ IdleMerge /\ IdleRequest
    /\ IdleFront

\* Lines 253-258: the response of a listing step without candidates, the
\* selection when the selector is not called, or the selector's fetch.
CheckCandidates ==
    /\ pc = "candidates"
    /\ IF Len(products) = 0
       THEN /\ response' = json(200, CompareBody(<<>>))
            /\ pc' = "done"
            /\ UNCHANGED <<selector, selectedIndices, inflight>>
       ELSE IF SelectorSkipped(selector, products)
       THEN /\ selector' = [selector EXCEPT !.state = "skipped"]
            /\ selectedIndices' = <<0>>
            /\ pc' = "selected"
            /\ UNCHANGED <<response, inflight>>
       ELSE /\ selector' = [selector EXCEPT !.state = "calling"]
            /\ inflight' = {SelectorFetch}
            /\ pc' = "selecting"
            /\ UNCHANGED <<response, selectedIndices>>
    /\ UNCHANGED <<request, variant, fetched, replies, detailPromises, listVars,
                   textVars, unitVars, mergeVars>>
    /\ UNCHANGED frontVars

\* The selector's fetch settles with one of the outcomes given and
\* aiSelectBestCandidates returns.
SelectorSettlesWith(outcomes) ==
    /\ pc = "selecting"
    /\ \E outcome \in outcomes :
          /\ selector' = [selector EXCEPT !.state = "settled", !.outcome = outcome]
          /\ selectedIndices' = IndicesOf(outcome, products)
    /\ inflight' = {}
    /\ pc' = "selected"
    /\ UNCHANGED <<request, variant, fetched, replies, detailPromises, response,
                   listVars, textVars, unitVars, mergeVars>>
    /\ UNCHANGED frontVars

\* The selector's fetch settles and aiSelectBestCandidates returns.
SelectorSettles == SelectorSettlesWith(SelectorOutcomes)

\* Step 2: topProducts.map(async ...) starts the fetch of every selected
\* product before Promise.all is awaited.
FetchDetails ==
    /\ pc = "selected"
    /\ detailPromises' = [k \in 1..Len(selectedIndices) |-> Pending(selectedIndices[k])]
    /\ inflight' = {Fetch(DetailUrlOf(products[selectedIndices[k] + 1]), DetailTimeoutMs) :
                        k \in 1..Len(selectedIndices)}
    /\ pc' = "batch"
    /\ UNCHANGED <<request, variant, fetched, replies, selector, selectedIndices,
                   response, listVars, textVars, unitVars, mergeVars>>
    /\ UNCHANGED frontVars

\* One fetch of the batch settles, in any order: its promise is fulfilled
\* with the parsed detail, or with null when fetchPage threw.
DetailSettles ==
    /\ pc = "batch"
    /\ \E k \in 1..Len(detailPromises), outcome \in DetailOutcomes :
          /\ detailPromises[k].state = "pending"
          /\ LET q == detailPromises[k]
                 code == ProductOf(q).code
                 settled == IF outcome = "page"
                            THEN Fulfilled(q.index, parseProductPage(PageOf(code), code))
                            ELSE FulfilledNull(q.index)
             IN  /\ detailPromises' = [detailPromises EXCEPT ![k] = settled]
                 /\ inflight' = {Fetch(DetailUrlOf(ProductOf(detailPromises'[j])), DetailTimeoutMs) :
                                     j \in {j \in 1..Len(detailPromises) :
                                               detailPromises'[j].state = "pending"}}
    /\ UNCHANGED <<pc, request, variant, fetched, replies, selector, selectedIndices,
                   response, detailResults, byStore, listVars, textVars, unitVars>>
    /\ UNCHANGED frontVars

\* Promise.all resolves: lines 274-278, the filter and the response of a
\* batch without any detail.
BatchSettled ==
    /\ pc = "batch"
    /\ AllSettled(detailPromises)
    /\ detailResults' = FilterBoolean(detailPromises)
    /\ IF Len(FilterBoolean(detailPromises)) = 0
       THEN /\ response' = json(200, CompareBody(<<>>))
            /\ pc' = "done"
       ELSE /\ pc' = "details"
            /\ UNCHANGED response
    /\ UNCHANGED <<byStore, reqVars, cmpVars, listVars, textVars, unitVars>>
    /\ UNCHANGED frontVars

NextCompare ==
    \/ CheckCandidates \/ SelectorSettles \/ FetchDetails \/ DetailSettles
    \/ BatchSettled \/ MergeStep3 \/ MergeStep4 \/ RespondCompare

SpecCompare == InitCompare /\ [][NextCompare]_vars

\* Longest reply of the selector in the specification of the selection.
MaxLongReply == 5

\* The selection alone, under replies longer than the cap of the selector:
\* from the candidates to the start of the detail fetches.
LongReplies ==
    {Threw, NoArray} \cup {ArrayOf(l) : l \in SeqsUpTo(0..MaxCandidates, MaxLongReply)}

SelectorReplies == SelectorSettlesWith(LongReplies)

NextSelect == CheckCandidates \/ SelectorReplies \/ FetchDetails

SpecSelect == InitCompare /\ [][NextSelect]_vars

\* C26: whatever the selector replies, the index list compare mode uses is
\* not empty, has at most 4 entries, and each index is at least 0 and less
\* than the number of candidates; each selected product is a stub of the
\* listing, and between 1 and 4 detail pages are fetched.
C26_SelectedIndices ==
    /\ pc \in {"selected", "batch"} =>
          /\ Len(selectedIndices) \in 1..4
          /\ \A k \in 1..Len(selectedIndices) :
                /\ selectedIndices[k] >= 0
                /\ selectedIndices[k] < Len(products)
                /\ products[selectedIndices[k] + 1] \in
                      {products[j] : j \in 1..Len(products)}
    /\ pc = "batch" =>
          /\ Len(detailPromises) \in 1..4
          /\ Len(detailPromises) = Len(selectedIndices)
          /\ \A k \in 1..Len(detailPromises) :
                /\ detailPromises[k].state = "pending"
                /\ detailPromises[k].index = selectedIndices[k]
                /\ Fetch(DetailUrlOf(products[selectedIndices[k] + 1]), DetailTimeoutMs)
                      \in inflight
          /\ Cardinality(inflight) \in 1..4

\* C26 witness: the selector replied with five usable indices, and four
\* detail fetches were started.
C26_Witness ==
    /\ pc = "batch"
    /\ selector.state = "settled"
    /\ selector.outcome.kind = "array"
    /\ Len(UsableIndices(selector.outcome.indices, products)) = 5
    /\ Len(detailPromises) = 4

\* The same request under the scheduling the code guarantees: the handler
\* runs on whenever it can, and a fetch made by fetchPage settles, since its
\* timer aborts it at the latest after timeoutMs.  The selector's fetch has
\* no timer (lines 33-45 pass no signal): nothing makes it settle.
FairCompare ==
    /\ WF_vars(CheckCandidates) /\ WF_vars(FetchDetails) /\ WF_vars(DetailSettles)
    /\ WF_vars(BatchSettled) /\ WF_vars(MergeStep3) /\ WF_vars(MergeStep4)
    /\ WF_vars(RespondCompare)

SpecCompareLive == InitCompare /\ [][NextCompare]_vars /\ FairCompare

\* The details of the fetches that succeeded, from promise k on, in the
\* order of the selection.
RECURSIVE SucceededFrom(_)
SucceededFrom(k) ==
    IF k > Len(detailPromises) THEN <<>>
    ELSE (IF detailPromises[k].state = "fulfilled"
          THEN <<parseProductPage(PageOf(ProductOf(detailPromises[k]).code),
                                  ProductOf(detailPromises[k]).code)>>
          ELSE <<>>) \o SucceededFrom(k + 1)

\* C12: a compare request whose listing step gave no stub, or whose detail
\* fetches all failed, is answered with HTTP 200 and storePrices = []; when
\* only some of the fetches failed the answer is HTTP 200 and the merge over
\* exactly the details that succeeded: a failing fetch neither ends the
\* request nor discards what its siblings gave.
C12_FailedDetailsAreLeftOut ==
    /\ pc = "batch" => response = NoResponse
    /\ pc = "done" =>
          /\ response.status = 200
          /\ response.kind = "compare"
          /\ products = <<>> => response.storePrices = <<>>
          /\ products # <<>> =>
                /\ Len(detailPromises) = Len(selectedIndices)
                /\ \A k \in 1..Len(detailPromises) : detailPromises[k].state # "pending"
                /\ response.storePrices =
                       MergeAlternatives(MergePrimary(<<>>, SucceededFrom(1)),
                                         SucceededFrom(1))
          /\ (\A k \in 1..Len(detailPromises) : detailPromises[k].state = "null")
                => response.storePrices = <<>>

\* C12 witness: three details were fetched, the first fetch failed and the
\* two after it succeeded, and the answer carries rows merged from both (a
\* store price of the second, an alternative of the first).
C12_Witness ==
    /\ pc = "done"
    /\ Len(detailPromises) = 3
    /\ detailPromises[1].state = "null"
    /\ detailPromises[2].state = "fulfilled" /\ detailPromises[2].index = 0
    /\ detailPromises[3].state = "fulfilled" /\ detailPromises[3].index = 1
    /\ \E r \in RowsOf(response.storePrices) : r.code = "BBB222" /\ r.store = "Aldi"
    /\ \E r \in RowsOf(response.storePrices) : r.code = "ZZZ999" /\ r.store = "M&S"

\* C21: in compare mode the merge accumulator is first written only after
\* every one of the detail fetches issued has settled: while a fetch is
\* pending nothing was filtered or merged, and once the merge has begun no
\* fetch is in flight.
C21_MergeAfterBatch ==
    /\ (\E k \in 1..Len(detailPromises) : detailPromises[k].state = "pending") =>
          /\ pc = "batch"
          /\ byStore = <<>> /\ detailResults = <<>>
          /\ response = NoResponse
    /\ pc = "batch" => (byStore = <<>> /\ detailResults = <<>>)
    /\ (byStore # <<>> \/ pc \in {"details", "step4", "respond"}) =>
          /\ inflight = {}
          /\ Len(detailPromises) = Len(selectedIndices)
          /\ \A k \in 1..Len(detailPromises) : detailPromises[k].state # "pending"

\* C21 witness: three detail fetches were issued, all settled, and the
\* primary pass has written the accumulator.
C21_Witness ==
    /\ pc = "step4"
    /\ Len(detailPromises) = 3
    /\ \E k \in 1..3 : detailPromises[k].state = "null"
    /\ byStore # <<>>

\* The selector gave nothing to go by: it is unconfigured, its call threw,
\* or its reply holds no usable index.
SelectorUnusable ==
    \/ selector.state = "skipped" /\ ~selector.configured
    \/ /\ selector.state = "settled"
       /\ \/ selector.outcome.kind \in {"threw", "nomatch"}
          \/ \A k \in 1..Len(selector.outcome.indices) :
                selector.outcome.indices[k] >= Len(products)

\* The fallback of the selector: whenever it is unconfigured, its call threw
\* or its reply holds no usable index, candidate 0 is the only product whose
\* detail is fetched, and the response is never an error response.
C13_FallbackToFirst ==
    /\ response.status \in {0, 200}
    /\ pc = "done" => response.status = 200
    /\ SelectorUnusable =>
          /\ selectedIndices = <<0>>
          /\ Len(detailPromises) <= 1
          /\ \A k \in 1..Len(detailPromises) : detailPromises[k].index = 0
          /\ \A k \in 1..Len(detailResults) : detailResults[k].code = products[1].code

\* C13: whenever the selector's call throws, times out, is unconfigured or
\* returns a reply without a usable index, the compare pipeline proceeds with
\* candidate 0 as the sole candidate and still answers with HTTP 200: once
\* the selector is called, the request goes on to its response.
C13_SelectorNeverFailsRequest ==
    /\ []C13_FallbackToFirst
    /\ (selector.state = "calling") ~> (pc = "done" /\ response.status = 200)

\* C14: every fetch in flight carries its own timer, and so every request
\* eventually returns a response even when an endpoint never answers.
C14_EveryFetchTimesOut ==
    /\ [](\A f \in inflight : f.timeoutMs # Null)
    /\ <>(pc = "done")

---------------------------------------------------------------------------
(* Specification of the search mode of app.js *)

\* Most searches started.
MaxSearches == 2

\* What the user does: the text of searchInput and the variantOverride of
\* the call ("" for the button, the Enter key and the hint chips, "Any" for
\* the chip of the clarification).
ClientInputs ==
    {[query |-> "brie", variantOverride |-> ""],
     [query |-> "cheese", variantOverride |-> ""],
     [query |-> "cheese", variantOverride |-> "Any"]}

\* The listings the server answers with: none, one whose only product has
\* no known store, and one with two loyalty stores and a cheaper third.
Listing ==
    <<ClientProduct("Tesco", "T1", 2), ClientProduct("Sainsbury's", "S1", 2),
      ClientProduct("Aldi", "A1", 1)>>
OddListing == <<ClientProduct("", "X1", 2)>>

\* The replies to /api/search?q=: a status that is not ok (or a body that
\* is not JSON), or the data.
SearchFailed == [ok |-> FALSE, settled |-> TRUE, products |-> <<>>, storePrices |-> <<>>]
SearchOk(prods) == [ok |-> TRUE, settled |-> TRUE, products |-> prods, storePrices |-> <<>>]
SearchReplies == {SearchFailed, SearchOk(<<>>), SearchOk(OddListing), SearchOk(Listing)}

\* The replies to /api/search?product=: not ok, a detail with a loyalty
\* price at the product's store, or a detail without an entry of the store.
ProductFailed == [ok |-> FALSE, settled |-> TRUE, products |-> <<>>, storePrices |-> <<>>]
ProductOk(entries) == [ok |-> TRUE, settled |-> TRUE, products |-> <<>>, storePrices |-> entries]
ProductReplies(p) ==
    {ProductFailed, ProductOk(<<>>),
     ProductOk(<<[store |-> p.store, price |-> p.price, loyaltyPrice |-> 1]>>)}

\* A guard that takes every table for the current one.
StillCurrent_Always(table) == TRUE

\* byStore === currentCompareByStore
StillCurrent(table) == table = currentCompareByStore

\* enrichCompareWithLoyalty up to its await: the stores to fetch, the ones
\* whose detail is cached (fetchLoyaltyInfo returns without a request, and
\* the callbacks run before any other event), the ones requested.
ToFetch(rows) == {store \in LOYALTY_STORES : HasRow(rows, store)}
Requested(rows) ==
    {store \in ToFetch(rows) :
        /\ RowAt(rows, store).code # ""
        /\ ~cache.products[RowAt(rows, store).code].defined}
InfoNow(rows, store) ==
    IF RowAt(rows, store).code = "" THEN NoLoyalty
    ELSE LoyaltyInfo(cache.products[RowAt(rows, store).code], RowAt(rows, store))
EnrichedNow(rows) ==
    [k \in 1..Len(rows) |->
        IF /\ rows[k].store \in ToFetch(rows) \ Requested(rows)
           /\ InfoNow(rows, rows[k].store).found
        THEN [rows[k] EXCEPT !.loyaltyPrice = InfoNow(rows, rows[k].store).loyaltyPrice]
        ELSE rows[k]]

\* A run of enrichCompareWithLoyalty: the object it captured, the product
\* captured per store, the stores whose request is in flight, and what each
\* request gave.
Enrichment(table, rows) ==
    [byStore |-> table,
     products |-> [store \in LOYALTY_STORES |->
                      IF HasRow(rows, store) THEN RowAt(rows, store)
                      ELSE ClientProduct("", "", 0)],
     pending |-> Requested(rows),
     got |-> [store \in LOYALTY_STORES |-> NoReply],
     done |-> Requested(rows) = {}]

\* Lines 113-117 and 132-137: the table of a listing is built, made
\* current, rendered and shown, and the enrichment is started.
ShowCompare(prods, n) ==
    LET rows == buildByStore(prods)
        table == Len(heap) + 1
        atOnce == ToFetch(rows) # {} /\ Requested(rows) = {}
    IN  /\ heap' = Append(heap, [rows |-> EnrichedNow(rows), search |-> n])
        /\ currentCompareByStore' = table
        /\ compareSection' =
              IF atOnce THEN Rendered(table, EnrichedNow(rows), "enrichCompareWithLoyalty")
              ELSE Rendered(table, rows, "doSearch")
        /\ view' = "compare"
        /\ enrichments' =
              IF ToFetch(rows) = {} THEN enrichments
              ELSE Append(enrichments, Enrichment(table, rows))
        /\ network' =
              [network EXCEPT !.products =
                  [c \in ClientCodes |->
                      IF \E store \in Requested(rows) : RowAt(rows, store).code = c
                      THEN @[c] + 1 ELSE @[c]]]

\* A call of doSearch: its effective query, whether the cache answered it,
\* how far it is, what its fetch gave, and the products it went on with.
Search(query, path, state, prods) ==
    [query |-> query, path |-> path, state |-> state, reply |-> NoReply,
     products |-> prods]

InitClient ==
    /\ pc = "client"
    /\ IdleText /\ IdleUnit /\ IdleMerge /\ IdleList /\ IdleRequest /\ IdleCompare
    /\ response = NoResponse
    /\ IdleFront

\* doSearch(variantOverride) up to its await, or to its end when the query
\* needs a clarification or the cache holds it.
DoSearch ==
    /\ pc = "client"
    /\ Len(searches) < MaxSearches
    /\ \E input \in ClientInputs :
          LET n == Len(searches) + 1
              effectiveQuery == input.query
          IN  IF input.variantOverride = "" /\ input.query \in CLARIFICATIONS
              THEN /\ view' = "clarification"
                   /\ searches' = Append(searches, Search(effectiveQuery, "clarification",
                                                         "clarification", <<>>))
                   /\ UNCHANGED <<heap, currentCompareByStore, compareSection,
                                  enrichments, network>>
              ELSE IF cache.searches[effectiveQuery].defined
              THEN /\ ShowCompare(cache.searches[effectiveQuery].products, n)
                   /\ searches' = Append(searches, Search(effectiveQuery, "hit", "compare",
                                                         cache.searches[effectiveQuery].products))
              ELSE /\ view' = "loading"
                   /\ network' = [network EXCEPT !.searches[effectiveQuery] = @ + 1]
                   /\ searches' = Append(searches, Search(effectiveQuery, "miss", "fetching",
                                                         <<>>))
                   /\ UNCHANGED <<heap, currentCompareByStore, compareSection, enrichments>>
    /\ UNCHANGED <<cache, basketVars, serverVars>>

\* A reply stored without looking at res.ok.
StoredData_Always(reply, before) == DataOf(reply.products)

\* Lines 122-125: what cache.searches[effectiveQuery] is after the reply.
StoredData(reply, before) == IF reply.ok THEN DataOf(reply.products) ELSE before

\* The fetch of a doSearch settles: lines 122-139.
SearchSettles ==
    /\ pc = "client"
    /\ \E i \in 1..Len(searches), reply \in SearchReplies :
          /\ searches[i].state = "fetching"
          /\ cache' = [cache EXCEPT !.searches[searches[i].query] = StoredData(reply, @)]
          /\ IF ~reply.ok
             THEN /\ view' = "error"
                  /\ searches' = [searches EXCEPT ![i].state = "error", ![i].reply = reply]
                  /\ UNCHANGED <<heap, currentCompareByStore, compareSection,
                                 enrichments, network>>
             ELSE IF Len(reply.products) = 0
             THEN /\ view' = "empty"
                  /\ searches' = [searches EXCEPT ![i].state = "empty", ![i].reply = reply,
                                                  ![i].products = reply.products]
                  /\ UNCHANGED <<heap, currentCompareByStore, compareSection,
                                 enrichments, network>>
             ELSE /\ ShowCompare(reply.products, i)
                  /\ searches' = [searches EXCEPT ![i].state = "compare", ![i].reply = reply,
                                                  ![i].products = reply.products]
    /\ UNCHANGED <<basketVars, serverVars>>

\* Lines 594-597: what cache.products[code] is after the reply.
StoredDetail(reply, before) == IF reply.ok THEN CachedDetail(reply.storePrices) ELSE before

\* The fetch of a fetchLoyaltyInfo settles: lines 594-620, the callback of
\* lines 249-252 and, after the last one, line 255.
LoyaltySettles ==
    /\ pc = "client"
    /\ \E k \in 1..Len(enrichments) :
       \E store \in enrichments[k].pending :
       \E reply \in ProductReplies(enrichments[k].products[store]) :
          LET e == enrichments[k]
              p == e.products[store]
              loyalty == IF reply.ok THEN LoyaltyInfo(reply, p) ELSE NoLoyalty
              written == IF loyalty.found /\ StillCurrent(e.byStore)
                         THEN [heap EXCEPT ![e.byStore].rows = Enriched(@, store, loyalty)]
                         ELSE heap
              last == e.pending = {store}
          IN  /\ cache' = [cache EXCEPT !.products[p.code] = StoredDetail(reply, @)]
              /\ heap' = written
              /\ enrichments' = [enrichments EXCEPT ![k].pending = @ \ {store},
                                                    ![k].got[store] = reply,
                                                    ![k].done = last]
              /\ compareSection' =
                    IF last /\ StillCurrent(e.byStore)
                    THEN Rendered(currentCompareByStore,
                                  written[currentCompareByStore].rows,
                                  "enrichCompareWithLoyalty")
                    ELSE compareSection
    /\ UNCHANGED <<currentCompareByStore, view, searches, network, basketVars, serverVars>>

NextClient == DoSearch \/ SearchSettles \/ LoyaltySettles

SpecClient == InitClient /\ [][NextClient]_vars

\* C23: once a response is stored in the cache for a query or a product
\* code, no later step issues a request for it; and a slot of the cache
\* changes only in the step in which a request for it was answered with an
\* ok reply, to the data of that reply, so that a failed request leaves the
\* cache as it was.
C23_CacheStopsRequests ==
    [][/\ \A q \in ClientQueries :
             cache.searches[q].defined => network'.searches[q] = network.searches[q]
       /\ \A c \in ClientCodes :
             cache.products[c].defined => network'.products[c] = network.products[c]
       /\ \A q \in ClientQueries :
             cache'.searches[q] # cache.searches[q] =>
                \E i \in 1..Len(searches) :
                   /\ searches[i].state = "fetching" /\ searches[i].query = q
                   /\ searches'[i].reply.ok
                   /\ cache'.searches[q] = DataOf(searches'[i].reply.products)
       /\ \A c \in ClientCodes :
             cache'.products[c] # cache.products[c] =>
                \E k \in 1..Len(enrichments) : \E store \in enrichments[k].pending :
                   /\ enrichments[k].products[store].code = c
                   /\ store \notin enrichments'[k].pending
                   /\ enrichments'[k].got[store].ok
                   /\ cache'.products[c] = CachedDetail(enrichments'[k].got[store].storePrices)
       /\ \A i \in 1..Len(searches) :
             (searches[i].state = "fetching" /\ searches'[i].state = "error") =>
                cache' = cache
      ]_vars

\* C23 witness: a query was searched twice, the second time from the cache,
\* and one request was issued for it; another request failed and its slot
\* of the cache is empty.
C23_Witness ==
    /\ \E i \in 1..Len(searches) :
          /\ searches[i].path = "hit"
          /\ network.searches[searches[i].query] = 1
    /\ \E k \in 1..Len(enrichments) : \E store \in LOYALTY_STORES :
          /\ enrichments[k].got[store].settled /\ ~enrichments[k].got[store].ok
          /\ ~cache.products[enrichments[k].products[store].code].defined

\* C27: when a search is started before an earlier one has answered, then
\* once every response has arrived the compare table shown and
\* currentCompareByStore are those of the search started last.
C27_LatestSearchWins ==
    (/\ Len(searches) >= 2
     /\ \A i \in 1..Len(searches) : searches[i].state # "fetching"
     /\ \A i \in 1..Len(searches) : searches[i].path = "miss"
     /\ searches[Len(searches)].state = "compare") =>
        /\ heap[currentCompareByStore].search = Len(searches)
        /\ compareSection.table = currentCompareByStore

\* C28: a request of an enrichCompareWithLoyalty whose table is no longer
\* currentCompareByStore settles without writing into any table and without
\* rendering; a table is written only while it is the current one, by its
\* own enrichment.
C28_StaleEnrichmentIsDropped ==
    [][/\ \A k \in 1..Len(enrichments) :
             (/\ enrichments'[k] # enrichments[k]
              /\ enrichments[k].byStore # currentCompareByStore) =>
                /\ heap' = heap
                /\ compareSection' = compareSection
       /\ \A h \in 1..Len(heap) :
             heap'[h] # heap[h] =>
                /\ h = currentCompareByStore /\ h = currentCompareByStore'
                /\ \E k \in 1..Len(enrichments) :
                      enrichments[k].byStore = h /\ enrichments'[k] # enrichments[k]
      ]_vars

\* C28 witness: the detail of a run whose table was replaced arrived with a
\* loyalty price for its store, and the table the run captured has none.
C28_Witness ==
    \E k \in 1..Len(enrichments) : \E store \in LOYALTY_STORES :
        LET e == enrichments[k]
        IN  /\ e.byStore # currentCompareByStore
            /\ e.got[store].ok
            /\ LoyaltyInfo(e.got[store], e.products[store]).found
            /\ RowAt(heap[e.byStore].rows, store).loyaltyPrice = Undefined
            /\ compareSection.table = currentCompareByStore

\* C30: a search answered from the cache ends in the view in which the
\* search that fetched the same data ended.
C30_CachedSearchSameView ==
    \A i \in 1..Len(searches), j \in 1..Len(searches) :
        (/\ searches[i].path = "miss" /\ searches[i].reply.ok
         /\ searches[j].path = "hit"
         /\ searches[j].query = searches[i].query
         /\ searches[j].products = searches[i].products) =>
            searches[j].state = searches[i].state

---------------------------------------------------------------------------
(* Specification of the basket mode of app.js *)

\* Most calls of doBasketSearch.
MaxBasketCalls == 2

\* The lines of the textarea (none, one, two, the same one twice) and the
\* stores ticked.
IngredientLists ==
    {<<>>, <<"brie">>, <<"brie", "cheese">>, <<"cheese", "brie">>, <<"brie", "brie">>}
StoreChoices == {{}, {"Aldi"}, {"Tesco", "Aldi"}}

\* The replies to the search of an ingredient.
BasketReplies == {SearchFailed, SearchOk(<<>>), SearchOk(Listing)}

\* obj[key] = value on an object held as a function of its keys.
Put(obj, key, value) ==
    [k \in DOMAIN obj \cup {key} |-> IF k = key THEN value ELSE obj[k]]

\* scoreAndFilter: the products of the selected stores, cheapest first, at
\* most three per store.
scoreAndFilter(prods, selectedStores) ==
    LET filtered == SelectSeq(prods, LAMBDA p : /\ p.store # ""
                                                 /\ p.store \in selectedStores
                                                 /\ p.price > 0 /\ p.named)
        sorted == SortByCost(filtered)
    IN  [store \in {sorted[k].store : k \in 1..Len(sorted)} |->
            Slice(SelectSeq(sorted, LAMBDA p : p.store = store), 3)]

\* Lines 346-351: basketSelections[ing], the first product of each group.
FirstOfEach(storeGroups) == [store \in DOMAIN storeGroups |-> storeGroups[store][1]]

\* A call of doBasketSearch: its ingredients and stores, the await it is at
\* ("returned", "rendered" and "failed" when it is over), the ingredient it
\* is at, and the loyalty requests in flight.
BasketRun(ingredients, stores, at, i, pending) ==
    [ingredients |-> ingredients, stores |-> stores, at |-> at, i |-> i,
     pending |-> pending]
Running(run) == run.at \in {"delay", "fetch", "loyaltyDelay", "loyalty"}

\* Where a call stands after a synchronous stretch: the await reached, the
\* selections and the store groups.
Stand(at, i, pending, sel, data) ==
    [at |-> at, i |-> i, pending |-> pending, sel |-> sel, data |-> data]

\* Phase 2 from ingredient i on: the delay before every ingredient but the
\* first, or the end of the try block.
LoyaltyFrom(run, i, sel, data) ==
    IF LOYALTY_STORES \cap run.stores = {} \/ i > Len(run.ingredients)
    THEN Stand("rendered", i, {}, sel, data)
    ELSE Stand("loyaltyDelay", i, {}, sel, data)

\* Lines 370-377 for ingredient i: the selected loyalty stores that have a
\* selection, the ones whose detail is requested, and the selections after
\* the cached details were applied.
LoyaltyStoresOf(run, i, sel) ==
    {store \in LOYALTY_STORES \cap run.stores :
        /\ run.ingredients[i] \in DOMAIN sel
        /\ store \in DOMAIN sel[run.ingredients[i]]}
LoyaltyRequested(run, i, sel, details) ==
    {store \in LoyaltyStoresOf(run, i, sel) :
        /\ sel[run.ingredients[i]][store].code # ""
        /\ ~details[sel[run.ingredients[i]][store].code].defined}
LoyaltyAt(run, i, sel, data, details) ==
    LET ing == run.ingredients[i]
        cached == LoyaltyStoresOf(run, i, sel) \ LoyaltyRequested(run, i, sel, details)
        info(store) == IF sel[ing][store].code = "" THEN NoLoyalty
                       ELSE LoyaltyInfo(details[sel[ing][store].code], sel[ing][store])
        applied == IF ing \in DOMAIN sel
                   THEN Put(sel, ing,
                            [store \in DOMAIN sel[ing] |->
                                IF store \in cached /\ info(store).found
                                THEN [sel[ing][store] EXCEPT
                                         !.loyaltyPrice = info(store).loyaltyPrice]
                                ELSE sel[ing][store]])
                   ELSE sel
    IN  IF LoyaltyRequested(run, i, sel, details) = {}
        THEN LoyaltyFrom(run, i + 1, applied, data)
        ELSE Stand("loyalty", i, LoyaltyRequested(run, i, sel, details), applied, data)

\* Phase 2 from its start: the first ingredient has no delay.
LoyaltyPhase(run, sel, data, details) ==
    IF LOYALTY_STORES \cap run.stores = {} THEN Stand("rendered", 1, {}, sel, data)
    ELSE LoyaltyAt(run, 1, sel, data, details)

\* Lines 346-351: the store groups and the selection of an ingredient.
Selected(run, ing, prods, sel) == Put(sel, ing, FirstOfEach(scoreAndFilter(prods, run.stores)))
Grouped(run, ing, prods, data) == Put(data, ing, scoreAndFilter(prods, run.stores))

\* Phase 1 from ingredient i on: cached ingredients are taken without an
\* await, the first one that is not cached is fetched, after a delay unless
\* it is the first line.
RECURSIVE SearchFrom(_, _, _, _, _)
SearchFrom(run, i, sel, data, stored) ==
    IF i > Len(run.ingredients)
    THEN LoyaltyPhase(run, sel, data, stored.products)
    ELSE LET ing == run.ingredients[i]
         IN  IF stored.searches[ing].defined
             THEN SearchFrom(run, i + 1,
                             Selected(run, ing, stored.searches[ing].products, sel),
                             Grouped(run, ing, stored.searches[ing].products, data),
                             stored)
             ELSE Stand(IF i > 1 THEN "delay" ELSE "fetch", i, {}, sel, data)

\* The requests a call issues when it reaches a stand.
RequestsAt(run, stand, before) ==
    IF stand.at = "fetch"
    THEN [before EXCEPT !.searches[run.ingredients[stand.i]] = @ + 1]
    ELSE IF stand.at = "loyalty"
    THEN [before EXCEPT !.products =
             [c \in ClientCodes |->
                 IF \E store \in stand.pending :
                       stand.sel[run.ingredients[stand.i]][store].code = c
                 THEN @[c] + 1 ELSE @[c]]]
    ELSE before

\* A call that starts whatever basketSearching is.
Returns_NeverBusy(ingredients, stores) == Len(ingredients) = 0 \/ stores = {}

\* Lines 298-305: the call returns before it sets the flag.
Returns(ingredients, stores) ==
    Len(ingredients) = 0 \/ basketSearching \/ stores = {}

\* A call goes on to the stand given: lines 307-309 are not part of it.
GoesOn(k, run, stand) ==
    /\ baskets' = [j \in 1..Max(k, Len(baskets)) |->
                      IF j = k
                      THEN BasketRun(run.ingredients, run.stores, stand.at, stand.i,
                                     stand.pending)
                      ELSE baskets[j]]
    /\ basketSelections' = stand.sel
    /\ basketData' = stand.data
    /\ network' = RequestsAt(run, stand, network)
    /\ basketSearching' = (stand.at \notin {"rendered", "failed"})

InitBasket ==
    /\ pc = "basket"
    /\ IdleText /\ IdleUnit /\ IdleMerge /\ IdleList /\ IdleRequest /\ IdleCompare
    /\ response = NoResponse
    /\ IdleFront

\* doBasketSearch up to its first await, or to its end.
DoBasketSearch ==
    /\ pc = "basket"
    /\ Len(baskets) < MaxBasketCalls
    /\ \E ingredients \in IngredientLists, stores \in StoreChoices :
          LET run == BasketRun(ingredients, stores, "called", 1, {})
          IN  IF Returns(ingredients, stores)
              THEN /\ baskets' = Append(baskets, [run EXCEPT !.at = "returned"])
                   /\ UNCHANGED <<basketSearching, basketSelections, basketData, network>>
              ELSE GoesOn(Len(baskets) + 1, run, SearchFrom(run, 1, <<>>, <<>>, cache))
    /\ UNCHANGED <<cache, searchVars, serverVars>>

\* await delay(2500) or await delay(1000) is over: the fetch of the
\* ingredient, or lines 370-377.
TimerFires ==
    /\ pc = "basket"
    /\ \E k \in 1..Len(baskets) :
          LET run == baskets[k]
          IN  /\ run.at \in {"delay", "loyaltyDelay"}
              /\ IF run.at = "delay"
                 THEN GoesOn(k, run, Stand("fetch", run.i, {}, basketSelections, basketData))
                 ELSE GoesOn(k, run, LoyaltyAt(run, run.i, basketSelections, basketData,
                                               cache.products))
    /\ UNCHANGED <<cache, searchVars, serverVars>>

\* The fetch of an ingredient settles: lines 340-352 and what follows
\* without an await, or the throw of line 341 and lines 384-391.
BasketFetchSettles ==
    /\ pc = "basket"
    /\ \E k \in 1..Len(baskets), reply \in BasketReplies :
          LET run == baskets[k]
              ing == run.ingredients[run.i]
              stored == [cache EXCEPT !.searches[ing] = StoredData(reply, @)]
          IN  /\ run.at = "fetch"
              /\ cache' = stored
              /\ IF ~reply.ok
                 THEN GoesOn(k, run, Stand("failed", run.i, {}, basketSelections, basketData))
                 ELSE GoesOn(k, run,
                             SearchFrom(run, run.i + 1,
                                        Selected(run, ing, reply.products, basketSelections),
                                        Grouped(run, ing, reply.products, basketData),
                                        stored))
    /\ UNCHANGED <<searchVars, serverVars>>

\* A detail request of phase 2 settles: lines 373-376, and after the last
\* one of the ingredient the next turn of the loop.
BasketLoyaltySettles ==
    /\ pc = "basket"
    /\ \E k \in 1..Len(baskets) :
       \E store \in baskets[k].pending :
          LET run == baskets[k]
              ing == run.ingredients[run.i]
              held == ing \in DOMAIN basketSelections /\ store \in DOMAIN basketSelections[ing]
          IN  /\ run.at = "loyalty"
              /\ IF ~held
                 THEN /\ UNCHANGED cache
                      /\ GoesOn(k, run, Stand("failed", run.i, {}, basketSelections, basketData))
                 ELSE \E reply \in ProductReplies(basketSelections[ing][store]) :
                         LET p == basketSelections[ing][store]
                             loyalty == IF reply.ok THEN LoyaltyInfo(reply, p) ELSE NoLoyalty
                             sel == IF loyalty.found
                                    THEN Put(basketSelections, ing,
                                             Put(basketSelections[ing], store,
                                                 [p EXCEPT !.loyaltyPrice = loyalty.loyaltyPrice]))
                                    ELSE basketSelections
                         IN  /\ cache' = [cache EXCEPT !.products[p.code] = StoredDetail(reply, @)]
                             /\ IF run.pending = {store}
                                THEN GoesOn(k, run, LoyaltyFrom(run, run.i + 1, sel, basketData))
                                ELSE GoesOn(k, run, Stand("loyalty", run.i, run.pending \ {store},
                                                          sel, basketData))
    /\ UNCHANGED <<searchVars, serverVars>>

NextBasket == DoBasketSearch \/ TimerFires \/ BasketFetchSettles \/ BasketLoyaltySettles

SpecBasket == InitBasket /\ [][NextBasket]_vars

\* The calls of doBasketSearch that are under way.
RunningCalls == {k \in 1..Len(baskets) : Running(baskets[k])}

\* C29: basketSearching is true exactly while a call of doBasketSearch is
\* under way, at most one is; a call made meanwhile returns without a
\* request and leaves basketSelections and basketData alone; and the flag is
\* false once the call is over, rendered or failed.
C29_BasketFlag ==
    /\ [](/\ basketSearching <=> RunningCalls # {}
          /\ Cardinality(RunningCalls) <= 1)
    /\ [][(Len(baskets') > Len(baskets) /\ basketSearching) =>
             /\ baskets'[Len(baskets')].at = "returned"
             /\ network' = network
             /\ basketSelections' = basketSelections
             /\ basketData' = basketData
             /\ basketSearching']_vars
    /\ [][\A k \in 1..Len(baskets) :
             (Running(baskets[k]) /\ ~Running(baskets'[k])) =>
                /\ baskets'[k].at \in {"rendered", "failed"}
                /\ ~basketSearching']_vars

\* C29 witness: a call made during another returned, and the other ended
\* with a failed search, the flag being false again.
C29_Witness ==
    /\ ~basketSearching
    /\ \E k \in 1..Len(baskets) : baskets[k].at = "failed"
    /\ \E k \in 1..Len(baskets) :
          /\ baskets[k].at = "returned"
          /\ Len(baskets[k].ingredients) > 0 /\ baskets[k].stores # {}

---------------------------------------------------------------------------
(* Claims about the store price merger (SpecMerge) *)

\* The places <<detail, entry>> of the primary entries, and their order:
\* detail order, then entry order.
PrimaryPlaces ==
    {<<i, j>> \in (1..Len(detailResults)) \X (1..MaxStorePrices + 1) :
        j <= Len(detailResults[i].storePrices)}

EntryAt(p) == detailResults[p[1]].storePrices[p[2]]

Before(p, q) == p[1] < q[1] \/ (p[1] = q[1] /\ p[2] < q[2])

AllAlternatives ==
    UNION {{detailResults[i].alternatives[j] : j \in 1..Len(detailResults[i].alternatives)}
           : i \in 1..Len(detailResults)}


\* C1: a store with a primary entry at any price and an alternative at a
\* lower price gets the primary-sourced row in the output, and no
\* alternative replaces or overrides a row of the primary pass.
C1_PrimaryWins ==
    pc \in {"respond", "done"} =>
        /\ \A p \in PrimaryPlaces : \A alt \in AllAlternatives :
              (alt.store = EntryAt(p).store /\ alt.price < EntryAt(p).price) =>
                  \E r \in RowsOf(byStore) :
                      r.store = alt.store /\ r.from = "storePrices"
        /\ \A r \in RowsOf(MergePrimary(<<>>, detailResults)) : r \in RowsOf(byStore)
        /\ pc = "done" => response.storePrices = byStore

\* C1 witness: Tesco has a primary entry at 2 and an alternative at 1, and
\* the returned row is the primary one, at 2.
C1_Witness ==
    /\ pc = "done"
    /\ \E p \in PrimaryPlaces : EntryAt(p).store = "Tesco" /\ EntryAt(p).price = 2
    /\ \E alt \in AllAlternatives : alt.store = "Tesco" /\ alt.price = 1
    /\ \E r \in RowsOf(response.storePrices) :
          r.store = "Tesco" /\ r.from = "storePrices" /\ r.price = 2

\* C2: the merge accumulator and the returned storePrices hold at most one
\* row per store name, whichever list the rows came from.
C2_OneRowPerStore ==
    /\ \A i, j \in 1..Len(byStore) : byStore[i].store = byStore[j].store => i = j
    /\ \A i, j \in 1..Len(response.storePrices) :
          response.storePrices[i].store = response.storePrices[j].store => i = j

\* C2 witness: a response with a primary-sourced row that replaced an
\* earlier one and an alternative-sourced row.
C2_Witness ==
    /\ pc = "done"
    /\ \E r \in RowsOf(response.storePrices) : r.from = "alternatives"
    /\ \E r \in RowsOf(response.storePrices) :
          r.from = "storePrices" /\ r.code = SelectedCodes[2] /\
          \E p \in PrimaryPlaces : p[1] = 1 /\ EntryAt(p).store = r.store
                                           /\ EntryAt(p).price # 0

\* The row of byStore is the one written for the entry at place p.
RowIsFrom(r, p) ==
    /\ r.from = "storePrices"
    /\ r.store = EntryAt(p).store
    /\ r.code = detailResults[p[1]].code
    /\ r.price = EntryAt(p).price
    /\ r.loyaltyPrice = IF EntryAt(p).loyaltyPrice = 0 THEN Null
                        ELSE EntryAt(p).loyaltyPrice

\* The row of a store after the primary pass is the one of the first entry
\* with the lowest effective price among the candidate places; effective
\* gives the effective price of the entry at each place.
LowestFirstSeen(candidates, effective) ==
    \A store \in PrimaryStores :
        LET C == {p \in candidates : EntryAt(p).store = store}
        IN  IF C = {} THEN \A r \in RowsOf(byStore) : r.store # store
            ELSE \E p \in C :
                    /\ \A q \in C : effective[p] <= effective[q]
                    /\ \A q \in C : effective[q] = effective[p] => (q = p \/ Before(p, q))
                    /\ \E r \in RowsOf(byStore) : RowIsFrom(r, p)

\* loyaltyPrice if present and lower than price, else price
EffectiveAsStated(sp) ==
    IF sp.loyaltyPrice # Null /\ sp.loyaltyPrice < sp.price
    THEN sp.loyaltyPrice ELSE sp.price

EffectiveNonZero(sp) ==
    IF sp.loyaltyPrice \notin {Null, 0} /\ sp.loyaltyPrice < sp.price
    THEN sp.loyaltyPrice ELSE sp.price

C20_AlternativeBackfill ==
    pc \in {"respond", "done"} =>
        /\ \A alt \in AllAlternatives :
              (/\ alt.price > 0
               /\ ~\E r \in RowsOf(byStore) : r.store = alt.store /\ r.from = "storePrices")
              => \E r \in RowsOf(byStore) : r.store = alt.store /\ r.from = "alternatives"
        /\ \A r \in RowsOf(byStore) :
              r.from = "alternatives" =>
                  /\ r.loyaltyPrice = Null
                  /\ r.loyaltyScheme = ""
                  /\ r.per100g = NoRatio
        /\ pc = "done" => response.storePrices = byStore

\* C20 witness: the second detail's alternatives show a store that no store
\* price entry covers, next to a row from a store price entry, and the
\* response carries a row from that alternative.
C20_Witness ==
    /\ pc = "done"
    /\ detailResults[2].alternatives # <<>>
    /\ \E r \in RowsOf(response.storePrices) : r.from = "storePrices"
    /\ \E r \in RowsOf(response.storePrices) :
          /\ r.from = "alternatives"
          /\ r.store = detailResults[2].alternatives[1].store
          /\ r.loyaltyPrice = Null /\ r.per100g = NoRatio

---------------------------------------------------------------------------
(* Claims about the text operations (SpecParse) *)

\* a > b on two numbers, false as soon as one is NaN.
Gt(a, b) == a # NaN /\ b # NaN /\ a > b

Entries == {storePrices[i] : i \in 1..Len(storePrices)}

\* C4: every entry of the detail parser that has a non-null loyaltyPrice or
\* loyaltyScheme has loyaltyPrice strictly less than price, in both textual
\* orderings.
C4_LoyaltyStrictlyLess ==
    \A e \in Entries :
        (e.loyaltyPrice # Null \/ e.loyaltyScheme # "") => Lt(e.loyaltyPrice, e.price)

\* C5 as stated: bestPrice is loyaltyPrice when loyaltyPrice is non-null and
\* less than price, and price otherwise; it is never null and bestPrice <=
\* price always holds (read as: bestPrice never exceeds price, which is what it
\* says of numbers and does not fail on a price that is NaN).
C5_BestPriceAsStated ==
    \A e \in Entries :
        /\ e.bestPrice = IF e.loyaltyPrice # Null /\ Lt(e.loyaltyPrice, e.price)
                         THEN e.loyaltyPrice ELSE e.price
        /\ e.bestPrice # Null
        /\ ~Gt(e.bestPrice, e.price)

\* C5 amended: bestPrice is loyaltyPrice when loyaltyPrice is non-null,
\* non-zero and less than price, and price otherwise; it is never null and
\* never exceeds price.
C5_BestPrice ==
    \A e \in Entries :
        /\ e.bestPrice = IF /\ e.loyaltyPrice \notin {Null, NaN, 0}
                            /\ e.price # NaN
                            /\ e.loyaltyPrice < e.price
                         THEN e.loyaltyPrice ELSE e.price
        /\ e.bestPrice # Null
        /\ ~Gt(e.bestPrice, e.price)

\* C5 witness: a parsed entry whose loyalty price is the best price.
C5_Witness ==
    /\ pc = "parsed"
    /\ \E e \in Entries :
          e.loyaltyPrice # Null /\ e.bestPrice = e.loyaltyPrice /\ Lt(e.bestPrice, e.price)

\* The amounts of a trimmed text that the claims call qualified: followed by
\* "per <unit>" or by "each".
QualifiedPositions(toks, trailing) ==
    PerUnitPositions(toks, trailing) \cup
    {i \in 1..Len(toks) :
        IsAmt(toks[i]) /\ i + 1 <= Len(toks) /\ toks[i + 1].k = "each"}

UnqualifiedPositions(toks, trailing) ==
    {i \in 1..Len(toks) : IsAmt(toks[i]) /\ i \notin QualifiedPositions(toks, trailing)}

\* C6: extractItemPrice returns the first amount that is not immediately
\* followed by "per <unit>" or "each", and 0 when no amount qualifies.
C6_FirstUnqualifiedAmount ==
    pc = "extracted" =>
        LET U == UnqualifiedPositions(text.toks, FALSE)
        IN  itemPrice = IF U = {} THEN 0 ELSE text.toks[First(U)].v

\* C7: the price of a segment's entry is the first amount of the segment that
\* is not a per-unit figure ("£X per Y" / "£X each"), and a segment whose only
\* amounts are per-unit figures yields no entry.
C7_PriceIsNotPerUnit ==
    (pc = "parsed" /\ ~IsUnavailable(text.toks)) =>
        LET clean == CutAtVisit(text.toks)
            U == UnqualifiedPositions(clean, TRUE)
        IN  IF U = {} THEN storePrices = <<>>
            ELSE /\ Len(storePrices) = 1
                 /\ storePrices[1].price = clean[First(U)].v

===========================================================================
